---- MODULE Spec2Model ----
(***************************************************************************)
(* Trip reduction and on-demand trip aggregation                           *)
(* (aws-trip-aggregation-sample).                                          *)
(*                                                                         *)
(* The model follows three handlers and one workflow:                      *)
(*   - the payload preparation handler (partition key extraction and the  *)
(*     filter expression),                                                 *)
(*   - the Step Functions workflow of DataReduction (prepare, MSCK REPAIR, *)
(*     two Athena queries in parallel, summary writer),                    *)
(*   - the create-trip-summaries handler (CSV parse, chunks of 25,         *)
(*     DynamoDB batchWrite of PutRequests),                                *)
(*   - the trips API backend handler (DynamoDB get, S3 Select or S3 get,   *)
(*     S3 put, DynamoDB update).                                           *)
(*                                                                         *)
(* Strings the code splits are modelled already split: a storage key is    *)
(* the sequence of its '/'-separated segments and a segment is the         *)
(* sequence of its '='-separated parts; an output location is the sequence *)
(* of its '/'-separated segments.                                          *)
(***************************************************************************)
EXTENDS Integers, Sequences, FiniteSets, TLC

VARIABLES
  delivered,    \* number of batch files the Event Batch Source has written
  catalog,      \* partitions registered in the Athena table (MSCK REPAIR)
  cycles,       \* the reduction cycles (state machine executions), in start order
  resultFiles,  \* Athena output files in the reduced-trips bucket, by file name
  table,        \* the trip summaries table: a set of items
  objects,      \* the aggregated-trips bucket: key -> body
  calls,        \* the invocations of the trips API backend, in start order
  lastWrite,    \* history: per trip id, the item of the latest PutRequest applied
  simulator     \* the vehicle simulator process (<<>> while none runs)

vars == <<delivered, catalog, cycles, resultFiles, table, objects, calls, lastWrite,
          simulator>>

(***************************************************************************)
(* Bounds of the model.                                                    *)
(***************************************************************************)
MaxCycles == 2
MaxCalls == 2
MaxSplits == 1
MaxRows == 52
MaxSegments == 3
MaxDelivered == 2
MaxUnprocessed == 1
MaxVehicles == 2
MaxTripCount == 2
MaxTripDuration == 1
MaxTrips == 3
MaxAwaiting == 2

(***************************************************************************)
(* Program constants.                                                      *)
(***************************************************************************)
TableKey == "trip_id"
GetKeyAttr == "trip_id"
UpdateKeyAttr == "TripId"
ChunkSize == 25
ReducedBucket == "reduced-trips-bucket"

ENGINE_START == "engine-start"
KEEP_ALIVE == "keep-alive"
TRIP_FINISHED == "trip-finished"

PartitionNames == <<"year", "month", "day", "hour", "minute">>

\* The branches of ParallelAthenaQueries, in the order they are listed.
SUMMARY == 1
RECORDS == 2
Branches == {SUMMARY, RECORDS}

(***************************************************************************)
(* The environment: the batch files the Event Batch Source writes, in the  *)
(* order it writes them.  The first two files land in the same minute      *)
(* partition and the third in the next one.  Trip t3 is finished without   *)
(* an engine start on record, trip t4 is started and never finished, and   *)
(* a keep-alive of trip t1 arrives late, in the third file.                *)
(***************************************************************************)
Trips == {"t1", "t2"}
UnknownTrip == "nonexistent"
TripIds == Trips \cup {UnknownTrip}
RequestedTrips == {"t1", UnknownTrip}
TripOrder == <<"nonexistent", "t1", "t2", "t3", "t4">>

BatchKey(minute, name) ==
  << <<"year", "2023">>, <<"month", "01">>, <<"day", "02">>,
     <<"hour", "03">>, <<"minute", minute>>, <<name>> >>

Event(id, trip, device, date, type) ==
  [eventid |-> id, tripid |-> trip, deviceid |-> device, eventdate |-> date,
   eventtype |-> type]

BatchFiles ==
  << [key |-> BatchKey("04", "part-0001"),
      events |-> {Event("e1", "t1", "v1", 1, ENGINE_START),
                  Event("e2", "t2", "v2", 2, ENGINE_START),
                  Event("e3", "t1", "v1", 4, TRIP_FINISHED)}],
     [key |-> BatchKey("04", "part-0002"),
      events |-> {Event("e4", "t2", "v2", 5, TRIP_FINISHED)}],
     [key |-> BatchKey("05", "part-0003"),
      events |-> {Event("e5", "t3", "v3", 9, TRIP_FINISHED),
                  Event("e6", "t4", "v4", 7, ENGINE_START),
                  Event("e7", "t1", "v1", 3, KEEP_ALIVE)}] >>

NumBatches == Len(BatchFiles)

(***************************************************************************)
(* Small helpers.                                                          *)
(***************************************************************************)
Range(s) == {s[i] : i \in DOMAIN s}

Has(f, k) == k \in DOMAIN f

Put(f, k, v) == [x \in DOMAIN f \cup {k} |-> IF x = k THEN v ELSE f[x]]

Without(f, k) == [x \in DOMAIN f \ {k} |-> f[x]]

Perms(S) == {s \in [1..Cardinality(S) -> S] : Range(s) = S}

Rank(t) == CHOOSE i \in DOMAIN TripOrder : TripOrder[i] = t

(***************************************************************************)
(* Payload preparation handler: partition key extraction.                  *)
(***************************************************************************)
\* Variant: the partition names start without a value.
RawStateMachineInputUnset ==
  [year |-> "undefined", month |-> "undefined", day |-> "undefined",
   hour |-> "undefined", minute |-> "undefined"]

RawStateMachineInput ==
  [year |-> "", month |-> "", day |-> "", hour |-> "", minute |-> ""]

\* Variant: the walk over the segments ends at the first one without '='.
RECURSIVE ExtractFromStopping(_, _, _)
ExtractFromStopping(keyParams, i, raw) ==
  IF i > Len(keyParams) THEN raw
  ELSE LET paramParams == keyParams[i]
       IN IF Len(paramParams) < 2
          THEN raw
          ELSE ExtractFromStopping(keyParams, i + 1,
                                   Put(raw, paramParams[1], paramParams[2]))

RECURSIVE ExtractFrom(_, _, _)
ExtractFrom(keyParams, i, raw) ==
  IF i > Len(keyParams) THEN raw
  ELSE LET paramParams == keyParams[i]
       IN IF Len(paramParams) < 2
          THEN ExtractFrom(keyParams, i + 1, raw)
          ELSE ExtractFrom(keyParams, i + 1,
                           Put(raw, paramParams[1], paramParams[2]))

ExtractPartitions(objectKey) == ExtractFrom(objectKey, 1, RawStateMachineInput)

\* Variant: the filter stops at the hour.
QueryFilterExpressionToHour(raw) ==
  [i \in 1..4 |-> <<PartitionNames[i], raw[PartitionNames[i]]>>]

\* QueryFilterExpression: the conjuncts a.<name> = '<value>' in source order.
QueryFilterExpression(raw) ==
  [i \in DOMAIN PartitionNames |-> <<PartitionNames[i], raw[PartitionNames[i]]>>]

\* A query text is the sequence of its tokens: a piece of fixed text, the
\* placeholder {}, or a conjunct a.<name> = '<value>' of the filter.
Text(t) == <<"text", t>>

Placeholder == Text("{}")

FinishedTripsSummaryQuery ==
  <<Text("SELECT ... FROM a LEFT JOIN b on a.tripid = b.tripid and b.eventtype = 'engine-start' where a.eventtype = 'trip-finished' and "),
    Placeholder, Text(";")>>

ReducedTripsQuery ==
  <<Text("SELECT * FROM a where tripid in (SELECT tripid FROM a where a.eventtype = 'trip-finished' and "),
    Placeholder, Text(") order by tripid, eventdate;")>>

StateMachineInput(objectKey) ==
  LET raw == ExtractPartitions(objectKey)
  IN [FinishedTripsSummaryQuery |-> FinishedTripsSummaryQuery,
      ReducedTripsQuery |-> ReducedTripsQuery,
      QueryFilterExpression |-> QueryFilterExpression(raw),
      FormattedDate |-> [i \in DOMAIN PartitionNames |-> raw[PartitionNames[i]]]]

\* States.Format(template, argument): the placeholder is replaced by the argument.
RECURSIVE StatesFormat(_, _)
StatesFormat(template, argument) ==
  IF template = <<>> THEN <<>>
  ELSE (IF Head(template) = Placeholder THEN argument ELSE <<Head(template)>>)
         \o StatesFormat(Tail(template), argument)

\* The query string of a branch of the Parallel state.
QueryString(input, b) ==
  IF b = SUMMARY
  THEN StatesFormat(input.FinishedTripsSummaryQuery, input.QueryFilterExpression)
  ELSE StatesFormat(input.ReducedTripsQuery, input.QueryFilterExpression)

\* The filter a query string applies: its conjuncts on the partition columns.
FilterOf(queryString) == SelectSeq(queryString, LAMBDA token : token[1] # "text")

(***************************************************************************)
(* The Athena table: the rows of the delivered files whose partition is    *)
(* registered.  A file's partition columns are the name=value segments of  *)
(* its key.                                                                *)
(***************************************************************************)
PartitionOf(objectKey) ==
  LET raw == ExtractPartitions(objectKey)
  IN [n \in Range(PartitionNames) |-> raw[n]]

TableRows(file) ==
  {[eventid |-> e.eventid, tripid |-> e.tripid, deviceid |-> e.deviceid,
    eventdate |-> e.eventdate, eventtype |-> e.eventtype,
    year |-> PartitionOf(file.key)["year"],
    month |-> PartitionOf(file.key)["month"],
    day |-> PartitionOf(file.key)["day"],
    hour |-> PartitionOf(file.key)["hour"],
    minute |-> PartitionOf(file.key)["minute"]] : e \in file.events}

StoredPartitions(n) == {PartitionOf(BatchFiles[i].key) : i \in 1..n}

Visible(n, cat) ==
  UNION {TableRows(BatchFiles[i]) :
           i \in {j \in 1..n : PartitionOf(BatchFiles[j].key) \in cat}}

Matches(row, filter) ==
  \A i \in DOMAIN filter : row[filter[i][1]] = filter[i][2]

(***************************************************************************)
(* FinishedTripsSummaryQuery and ReducedTripsQuery, evaluated over the     *)
(* table rows `tbl`, and the CSV text Athena writes for their results      *)
(* (every cell a string, NULL the empty string).                           *)
(***************************************************************************)
\* Variant: the finished trips of every partition.
FinishedInAnyPartition(tbl, filter) ==
  {a \in tbl : a.eventtype = TRIP_FINISHED}

FinishedIn(tbl, filter) ==
  {a \in tbl : a.eventtype = TRIP_FINISHED /\ Matches(a, filter)}

EngineStarts(tbl, a) ==
  {b \in tbl : a.tripid = b.tripid /\ b.eventtype = ENGINE_START}

\* Variant: the rows counted are those of the partition of the finished row.
EventCountInPartition(tbl, a) ==
  Cardinality({c \in tbl : /\ a.tripid = c.tripid
                           /\ \A n \in Range(PartitionNames) : c[n] = a[n]})

\* (select count(1) from the table c where a.tripid = c.tripid)
EventCount(tbl, a) == Cardinality({c \in tbl : a.tripid = c.tripid})

SummaryRow(tbl, a, start) ==
  [vehicle_id |-> a.deviceid,
   trip_id |-> a.tripid,
   start_date |-> IF start = <<>> THEN "" ELSE ToString(start[1]),
   end_date |-> ToString(a.eventdate),
   duration |-> IF start = <<>> THEN "" ELSE ToString(a.eventdate - start[1]),
   event_count |-> ToString(EventCount(tbl, a))]

\* a JOIN b on a.tripid = b.tripid and b.eventtype = 'engine-start': one
\* joined row <<a, <<b>>>> for every engine-start row b of the trip of a.
InnerJoin(tbl, a) == {<<a, <<b>>>> : b \in EngineStarts(tbl, a)}

\* a LEFT JOIN b: a row a without an engine-start row is kept, with no b.
LeftJoin(tbl, a) ==
  IF EngineStarts(tbl, a) = {} THEN {<<a, <<>>>>} ELSE InnerJoin(tbl, a)

\* The select list over the joined rows, in the order the query returns
\* them.  The query has no DISTINCT: two joined rows with equal cells give
\* two rows of the result.
Selected(tbl, joined) ==
  [i \in DOMAIN joined |->
     SummaryRow(tbl, joined[i][1],
                [k \in DOMAIN joined[i][2] |-> joined[i][2][k].eventdate])]

\* Variant: the engine-start rows are joined with an inner join.
FinishedTripsSummaryInnerJoin(tbl, filter) ==
  {Selected(tbl, joined) :
     joined \in Perms(UNION {InnerJoin(tbl, a) : a \in FinishedIn(tbl, filter)})}

\* The results of FinishedTripsSummaryQuery: the query has no ORDER BY, so
\* the joined rows come in any order.
FinishedTripsSummary(tbl, filter) ==
  {Selected(tbl, joined) :
     joined \in Perms(UNION {LeftJoin(tbl, a) : a \in FinishedIn(tbl, filter)})}

RecordRow(r) ==
  [eventid |-> r.eventid, tripid |-> r.tripid, deviceid |-> r.deviceid,
   eventdate |-> ToString(r.eventdate), eventtype |-> r.eventtype,
   year |-> r.year, month |-> r.month, day |-> r.day, hour |-> r.hour,
   minute |-> r.minute]

ReducedTripRows(tbl, filter) ==
  {r \in tbl : r.tripid \in {a.tripid : a \in FinishedIn(tbl, filter)}}

\* order by tripid, eventdate
Ordered(s) ==
  \A i, j \in DOMAIN s :
     i < j => \/ Rank(s[i].tripid) < Rank(s[j].tripid)
              \/ /\ s[i].tripid = s[j].tripid
                 /\ s[i].eventdate <= s[j].eventdate

ReducedTrips(tbl, filter) ==
  {[i \in DOMAIN s |-> RecordRow(s[i])] :
     s \in {p \in Perms(ReducedTripRows(tbl, filter)) : Ordered(p)}}

(***************************************************************************)
(* Athena output: one file per query execution, named after the execution  *)
(* and stored under the work group's output location.                      *)
(***************************************************************************)
ExecutionName(c, b) == <<c, b>>

OutputLocation(name) == <<"s3:", "", ReducedBucket, name>>

(***************************************************************************)
(* Summary writer handler (create-trip-summaries).                         *)
(***************************************************************************)
Reverse(s) == [i \in DOMAIN s |-> s[Len(s) + 1 - i]]

\* OutputLocation.split('/').reverse().slice(0, 2) -> { Bucket, Key }
QueryResultFile(location) ==
  LET result == SubSeq(Reverse(location), 1, 2)
  IN [Bucket |-> result[2], Key |-> result[1]]

QueryResultFiles(queryResults) ==
  [i \in DOMAIN queryResults |-> QueryResultFile(queryResults[i])]

\* The header of the summary output: the select list of the summary query.
SummaryColumns ==
  {"vehicle_id", "trip_id", "start_date", "end_date", "duration", "event_count"}

\* parse(text, {columns: true, skipEmptyLines: true}): one record per row,
\* its cells named by the header.  A row with another number of cells than
\* the header makes the parser throw.
CsvParses(file) == \A i \in DOMAIN file : DOMAIN file[i] = SummaryColumns

WithRecordsFile(trip, tripFile) == ("RecordsFile" :> tripFile) @@ trip

\* Variant: the file reference is taken from the first query result.
TripsSummaryOfFirstFile(queryResults, files) ==
  LET queryResultFiles == QueryResultFiles(queryResults)
      tripFile == queryResultFiles[1]
      tripSummaryFile == files[queryResultFiles[1].Key]
  IN [i \in DOMAIN tripSummaryFile |-> WithRecordsFile(tripSummaryFile[i], tripFile)]

\* tripFile = queryResultFiles[1]; the rows parsed from queryResultFiles[0]
TripsSummary(queryResults, files) ==
  LET queryResultFiles == QueryResultFiles(queryResults)
      tripFile == queryResultFiles[2]
      tripSummaryFile == files[queryResultFiles[1].Key]
  IN [i \in DOMAIN tripSummaryFile |-> WithRecordsFile(tripSummaryFile[i], tripFile)]

Min(a, b) == IF a < b THEN a ELSE b

\* Variant: the slice of a chunk ends one row later.
RECURSIVE ChunksFromOneMore(_, _)
ChunksFromOneMore(tripsSummary, i) ==
  IF i >= Len(tripsSummary) THEN <<>>
  ELSE <<SubSeq(tripsSummary, i + 1, Min(i + ChunkSize + 1, Len(tripsSummary)))>>
       \o ChunksFromOneMore(tripsSummary, i + ChunkSize)

RECURSIVE ChunksFrom(_, _)
ChunksFrom(tripsSummary, i) ==
  IF i >= Len(tripsSummary) THEN <<>>
  ELSE <<SubSeq(tripsSummary, i + 1, Min(i + ChunkSize, Len(tripsSummary)))>>
       \o ChunksFrom(tripsSummary, i + ChunkSize)

TripSummaryChunks(tripsSummary) == ChunksFrom(tripsSummary, 0)

(***************************************************************************)
(* The trip summaries table (DynamoDB, partition key trip_id).              *)
(***************************************************************************)
\* batchWrite rejects a request with an item that lacks the key or with two
\* items of the same key.
ValidBatch(chunk) ==
  /\ {i \in DOMAIN chunk : ~Has(chunk[i], TableKey)} = {}
  /\ Cardinality({chunk[i][TableKey] : i \in DOMAIN chunk}) = Len(chunk)

\* Variant: a put adds the item and keeps the items already there.
BatchWriteAdding(tbl, chunk) == tbl \cup Range(chunk)

\* Variant: a request leaves the table with its own items only.
BatchWriteReplacingTable(tbl, chunk) == Range(chunk)

\* PutRequest: the item replaces the whole item of the same key.
BatchWrite(tbl, chunk) ==
  {item \in tbl : \A i \in DOMAIN chunk : item[TableKey] # chunk[i][TableKey]}
    \cup Range(chunk)

\* get / update name the item by a key; a key that is not the table's key
\* schema is rejected by the table.
KeyAccepted(keyAttr) == keyAttr = TableKey

GetItem(tbl, keyAttr, value) ==
  {item \in tbl : item[keyAttr] = value}

\* update sets one attribute of the item of that key, and creates the item
\* when the table has none.
UpdateItem(tbl, keyAttr, value, attr, v) ==
  IF \E item \in tbl : item[keyAttr] = value
  THEN {IF item[keyAttr] = value THEN Put(item, attr, v) ELSE item : item \in tbl}
  ELSE tbl \cup {Put((keyAttr :> value), attr, v)}

AggregationExecuted(item) ==
  Has(item, "AggregationExecuted") /\ item["AggregationExecuted"]

(***************************************************************************)
(* Reduction cycles: the Step Functions workflow of DataReduction.         *)
(***************************************************************************)
NewCycle(objectKey) ==
  [key |-> objectKey,
   stage |-> "PREPARE_INPUT",
   input |-> <<>>,
   refresh |-> "idle",
   refreshes |-> 0,
   q |-> <<"idle", "idle">>,
   seen |-> <<<<>>, <<>>>>,
   writer |-> "idle",
   rows |-> <<>>,
   pending |-> {}]

CycleIds == DOMAIN cycles

\* The Event Batch Source writes its next batch file.
Deliver ==
  /\ delivered < NumBatches
  /\ delivered < MaxDelivered
  /\ delivered' = delivered + 1
  /\ UNCHANGED <<catalog, cycles, resultFiles, table, objects, calls, lastWrite, simulator>>

\* Variant: a key that an execution was started with starts no further one.
StartExecutionOncePerKey(f) ==
  /\ f \in 1..delivered
  /\ Len(cycles) < MaxCycles
  /\ \A c \in DOMAIN cycles : cycles[c].key # BatchFiles[f].key
  /\ cycles' = Append(cycles, NewCycle(BatchFiles[f].key))
  /\ UNCHANGED <<delivered, catalog, resultFiles, table, objects, calls, lastWrite, simulator>>

\* A PutObject notification of a written file reaches the rule (a file's
\* notification may arrive more than once): one execution starts with its key.
StartExecution(f) ==
  /\ f \in 1..delivered
  /\ Len(cycles) < MaxCycles
  /\ cycles' = Append(cycles, NewCycle(BatchFiles[f].key))
  /\ UNCHANGED <<delivered, catalog, resultFiles, table, objects, calls, lastWrite, simulator>>

\* Variant: the workflow goes from the payload straight to the queries.
PreparePayloadThenQueries(c) ==
  /\ cycles[c].stage = "PREPARE_INPUT"
  /\ cycles' = [cycles EXCEPT ![c].input = StateMachineInput(cycles[c].key),
                              ![c].stage = "RUN_QUERIES",
                              ![c].q = <<"running", "running">>]
  /\ UNCHANGED <<delivered, catalog, resultFiles, table, objects, calls, lastWrite, simulator>>

PreparePayload(c) ==
  /\ cycles[c].stage = "PREPARE_INPUT"
  /\ cycles' = [cycles EXCEPT ![c].input = StateMachineInput(cycles[c].key),
                              ![c].stage = "REFRESH_PARTITIONS"]
  /\ UNCHANGED <<delivered, catalog, resultFiles, table, objects, calls, lastWrite, simulator>>

\* Variant: a failed refresh is retried once.
UpdateAthenaPartitionsRetried(c) ==
  /\ cycles[c].stage = "REFRESH_PARTITIONS"
  /\ \/ /\ catalog' = catalog \cup StoredPartitions(delivered)
        /\ cycles' = [cycles EXCEPT ![c].refresh = "ok",
                                    ![c].refreshes = @ + 1,
                                    ![c].stage = "RUN_QUERIES",
                                    ![c].q = <<"running", "running">>]
     \/ /\ cycles' = [cycles EXCEPT ![c].refresh = "failed",
                                    ![c].refreshes = @ + 1,
                                    ![c].stage = IF cycles[c].refreshes < 1
                                                 THEN "REFRESH_PARTITIONS"
                                                 ELSE "FAILED"]
        /\ UNCHANGED catalog
  /\ UNCHANGED <<delivered, resultFiles, table, objects, calls, lastWrite, simulator>>

\* MSCK REPAIR TABLE (RUN_JOB): on success the two branches of the Parallel
\* state start; on failure the execution fails.
UpdateAthenaPartitions(c) ==
  /\ cycles[c].stage = "REFRESH_PARTITIONS"
  /\ \/ /\ catalog' = catalog \cup StoredPartitions(delivered)
        /\ cycles' = [cycles EXCEPT ![c].refresh = "ok",
                                    ![c].refreshes = @ + 1,
                                    ![c].stage = "RUN_QUERIES",
                                    ![c].q = <<"running", "running">>]
     \/ /\ cycles' = [cycles EXCEPT ![c].refresh = "failed",
                                    ![c].refreshes = @ + 1,
                                    ![c].stage = "FAILED"]
        /\ UNCHANGED catalog
  /\ UNCHANGED <<delivered, resultFiles, table, objects, calls, lastWrite, simulator>>

Other(b) == IF b = SUMMARY THEN RECORDS ELSE SUMMARY

QueryOutputs(b, tbl, filter) ==
  IF b = SUMMARY THEN FinishedTripsSummary(tbl, filter)
  ELSE ReducedTrips(tbl, filter)

\* Variant: a failed branch is caught and the Parallel state carries on.
AthenaQueryCaught(c, b) ==
  /\ cycles[c].stage = "RUN_QUERIES"
  /\ cycles[c].q[b] = "running"
  /\ LET joined == cycles[c].q[Other(b)] \in {"ok", "failed"}
     IN \/ \E rows \in QueryOutputs(b, Visible(delivered, catalog),
                                    FilterOf(QueryString(cycles[c].input, b))) :
             /\ resultFiles' = Put(resultFiles, ExecutionName(c, b), rows)
             /\ cycles' = [cycles EXCEPT
                  ![c].q[b] = "ok",
                  ![c].seen[b] = <<delivered, catalog>>,
                  ![c].stage = IF joined THEN "WRITE_SUMMARIES" ELSE @,
                  ![c].writer = IF joined THEN "invoked" ELSE @]
        \/ /\ resultFiles' = Put(resultFiles, ExecutionName(c, b), <<>>)
           /\ cycles' = [cycles EXCEPT
                ![c].q[b] = "failed",
                ![c].stage = IF joined THEN "WRITE_SUMMARIES" ELSE @,
                ![c].writer = IF joined THEN "invoked" ELSE @]
  /\ UNCHANGED <<delivered, catalog, table, objects, calls, lastWrite, simulator>>

\* Variant: a failed branch leaves the Parallel state waiting for its result.
AthenaQueryWaiting(c, b) ==
  /\ cycles[c].stage = "RUN_QUERIES"
  /\ cycles[c].q[b] = "running"
  /\ \/ \E tbl \in {Visible(delivered, catalog)} :
        \E filter \in {FilterOf(QueryString(cycles[c].input, b))} :
        LET joined == cycles[c].q[Other(b)] = "ok"
        IN \E rows \in QueryOutputs(b, tbl, filter) :
             /\ resultFiles' = Put(resultFiles, ExecutionName(c, b), rows)
             /\ cycles' = [cycles EXCEPT
                  ![c].q[b] = "ok",
                  ![c].seen[b] = <<delivered, catalog>>,
                  ![c].stage = IF joined THEN "WRITE_SUMMARIES" ELSE @,
                  ![c].writer = IF joined THEN "invoked" ELSE @]
     \/ /\ cycles' = [cycles EXCEPT ![c].q[b] = "failed"]
        /\ UNCHANGED resultFiles
  /\ UNCHANGED <<delivered, catalog, table, objects, calls, lastWrite, simulator>>

\* One branch of ParallelAthenaQueries ends: with an output file, or failed.
\* The Parallel state succeeds when both branches have, and fails with the
\* first branch that fails (the other branch is stopped).
AthenaQuery(c, b) ==
  /\ cycles[c].stage = "RUN_QUERIES"
  /\ cycles[c].q[b] = "running"
  /\ \/ \E tbl \in {Visible(delivered, catalog)} :
        \E filter \in {FilterOf(QueryString(cycles[c].input, b))} :
        LET joined == cycles[c].q[Other(b)] = "ok"
        IN \E rows \in QueryOutputs(b, tbl, filter) :
             /\ resultFiles' = Put(resultFiles, ExecutionName(c, b), rows)
             /\ cycles' = [cycles EXCEPT
                  ![c].q[b] = "ok",
                  ![c].seen[b] = <<delivered, catalog>>,
                  ![c].stage = IF joined THEN "WRITE_SUMMARIES" ELSE @,
                  ![c].writer = IF joined THEN "invoked" ELSE @]
     \/ /\ cycles' = [cycles EXCEPT
             ![c].q[b] = "failed",
             ![c].q[Other(b)] = IF @ = "running" THEN "stopped" ELSE @,
             ![c].stage = "FAILED"]
        /\ UNCHANGED resultFiles
  /\ UNCHANGED <<delivered, catalog, table, objects, calls, lastWrite, simulator>>

\* Variant: the branches of the Parallel state are listed the other way round.
QueryResultsSwapped(c) ==
  <<OutputLocation(ExecutionName(c, RECORDS)), OutputLocation(ExecutionName(c, SUMMARY))>>

QueryResults(c) ==
  <<OutputLocation(ExecutionName(c, SUMMARY)), OutputLocation(ExecutionName(c, RECORDS))>>

\* CreateTripSummariesTask, up to the batchWrite requests being issued.  The
\* handler has no try around the parse: a row that does not parse fails it.
CreateTripSummaries(c) ==
  /\ cycles[c].stage = "WRITE_SUMMARIES"
  /\ cycles[c].writer = "invoked"
  /\ IF CsvParses(resultFiles[QueryResultFiles(QueryResults(c))[1].Key])
     THEN LET tripsSummary == TripsSummary(QueryResults(c), resultFiles)
              chunks == TripSummaryChunks(tripsSummary)
          IN cycles' = [cycles EXCEPT
               ![c].rows = tripsSummary,
               ![c].pending = DOMAIN chunks,
               ![c].writer = IF chunks = <<>> THEN "ok" ELSE "writing",
               ![c].stage = IF chunks = <<>> THEN "DONE" ELSE @]
     ELSE cycles' = [cycles EXCEPT ![c].writer = "failed", ![c].stage = "FAILED"]
  /\ UNCHANGED <<delivered, catalog, resultFiles, table, objects, calls, lastWrite, simulator>>

\* A batchWrite request that is accepted answers with the items it did not
\* process (throttling, an internal failure) in UnprocessedItems: here, the
\* last items of the request, MaxUnprocessed at most.
UnprocessedItems(chunk) ==
  {(Len(chunk) - n + 1)..Len(chunk) : n \in 0..Min(MaxUnprocessed, Len(chunk))}

\* One batchWrite request ends: accepted (the processed items are put), or
\* rejected.  The handler does not look at the answer of an accepted
\* request; it resolves when every request was accepted and rejects with the
\* first one rejected.
BatchWriteChunk(c, i) ==
  /\ i \in cycles[c].pending
  /\ LET chunk == TripSummaryChunks(cycles[c].rows)[i]
         left == cycles[c].pending \ {i}
         last == cycles[c].writer = "writing" /\ left = {}
     IN \/ /\ ValidBatch(chunk)
           /\ \E unprocessed \in UnprocessedItems(chunk) :
                \E processed \in {SubSeq(chunk, 1, Len(chunk) - Cardinality(unprocessed))} :
                  /\ table' = BatchWrite(table, processed)
                  /\ lastWrite' = [t \in TripIds |->
                       IF \E k \in DOMAIN processed : processed[k][TableKey] = t
                       THEN <<CHOOSE item \in Range(processed) : item[TableKey] = t>>
                       ELSE lastWrite[t]]
           /\ cycles' = [cycles EXCEPT
                ![c].pending = left,
                ![c].writer = IF last THEN "ok" ELSE @,
                ![c].stage = IF last THEN "DONE" ELSE @]
        \/ /\ cycles' = [cycles EXCEPT
                ![c].pending = left,
                ![c].writer = "failed",
                ![c].stage = "FAILED"]
           /\ UNCHANGED <<table, lastWrite>>
  /\ UNCHANGED <<delivered, catalog, resultFiles, objects, calls, simulator>>

CycleStep ==
  \/ Deliver
  \/ \E f \in 1..NumBatches : StartExecution(f)
  \/ \E c \in CycleIds : PreparePayload(c)
  \/ \E c \in CycleIds : UpdateAthenaPartitions(c)
  \/ \E c \in CycleIds, b \in Branches : AthenaQuery(c, b)
  \/ \E c \in CycleIds : CreateTripSummaries(c)
  \/ \E c \in CycleIds : \E i \in cycles[c].pending : BatchWriteChunk(c, i)

(***************************************************************************)
(* Trips API backend handler.                                              *)
(***************************************************************************)
\* Key of the putObject on the cold path: trips/<TripId>.json
ObjectKey(tripId) == <<"trips", tripId>>

\* Key of the getObject on the warm path: trips/<TripId>.json
AggregatedTripKey(tripId) == <<"trips", tripId>>

JsonStringify(value) == [json |-> value]

JsonParse(body) == body.json

\* select * from s3object s where s."tripid" = '<TripId>', rows in file order
SelectObjectContent(file, tripId) ==
  SelectSeq(file, LAMBDA r : r.tripid = tripId)

RECURSIVE DropFrom(_, _, _)
DropFrom(s, i, lost) ==
  IF i > Len(s) THEN <<>>
  ELSE (IF i \in lost THEN <<>> ELSE <<s[i]>>) \o DropFrom(s, i + 1, lost)

\* The payload arrives in pages; each page is split at line ends and each
\* piece parsed on its own.  A row whose text is cut by a page end gives two
\* pieces that do not parse, and is dropped.  `cut` holds the rows so cut.
CollectRecords(selected, cut) == DropFrom(selected, 1, cut)

PageCuts(selected) ==
  {cut \in SUBSET DOMAIN selected : Cardinality(cut) <= MaxSplits}

EnhancedTrip(tripSummary, tripRecords) == ("Records" :> tripRecords) @@ tripSummary

Final == {"returned", "error"}

NewCall(tripId) ==
  [trip |-> tripId,
   pc |-> "get",
   after |-> {k \in DOMAIN calls : calls[k].pc \in Final},
   summary |-> <<>>,
   enhanced |-> <<>>,
   result |-> <<>>,
   scans |-> 0, puts |-> 0, gets |-> 0, updates |-> 0]

CallIds == DOMAIN calls

\* The handler is invoked and awaits dynamodb.get.
StartCall(tripId) ==
  /\ Len(calls) < MaxCalls
  /\ calls' = Append(calls, NewCall(tripId))
  /\ UNCHANGED <<delivered, catalog, cycles, resultFiles, table, objects, lastWrite, simulator>>

\* Variant: a missing item is returned as it is instead of throwing.
GetTripSummaryLenient(k) ==
  /\ calls[k].pc = "get"
  /\ LET found == IF KeyAccepted(GetKeyAttr)
                  THEN GetItem(table, GetKeyAttr, calls[k].trip)
                  ELSE {}
     IN IF found = {}
        THEN calls' = [calls EXCEPT ![k].pc = "returned"]
        ELSE calls' = [calls EXCEPT ![k].summary = <<CHOOSE item \in found : TRUE>>,
                                    ![k].pc = "fetch"]
  /\ UNCHANGED <<delivered, catalog, cycles, resultFiles, table, objects, lastWrite, simulator>>

\* dynamodb.get answers.  Reading AggregationExecuted of a missing item throws.
GetTripSummary(k) ==
  /\ calls[k].pc = "get"
  /\ LET found == IF KeyAccepted(GetKeyAttr)
                  THEN GetItem(table, GetKeyAttr, calls[k].trip)
                  ELSE {}
     IN IF found = {}
        THEN calls' = [calls EXCEPT ![k].pc = "error"]
        ELSE calls' = [calls EXCEPT ![k].summary = <<CHOOSE item \in found : TRUE>>,
                                    ![k].pc = "fetch"]
  /\ UNCHANGED <<delivered, catalog, cycles, resultFiles, table, objects, lastWrite, simulator>>

\* Variant: on the cold path the summary update is issued before the put.
FetchTripUpdatingFirst(k) ==
  /\ calls[k].pc = "fetch"
  /\ LET tripSummary == calls[k].summary[1]
         tripId == calls[k].trip
     IN IF ~AggregationExecuted(tripSummary)
        THEN LET selected ==
                   SelectObjectContent(resultFiles[tripSummary["RecordsFile"].Key], tripId)
             IN \E cut \in PageCuts(selected) :
                  calls' = [calls EXCEPT
                    ![k].enhanced =
                       <<EnhancedTrip(tripSummary, CollectRecords(selected, cut))>>,
                    ![k].scans = @ + 1,
                    ![k].pc = "update"]
        ELSE IF AggregatedTripKey(tripId) \in DOMAIN objects
             THEN calls' = [calls EXCEPT
                    ![k].result = <<JsonParse(objects[AggregatedTripKey(tripId)])>>,
                    ![k].gets = @ + 1,
                    ![k].pc = "returned"]
             ELSE calls' = [calls EXCEPT ![k].gets = @ + 1, ![k].pc = "error"]
  /\ UNCHANGED <<delivered, catalog, cycles, resultFiles, table, objects, lastWrite, simulator>>

\* Variant: the trip is composed from the records file whatever the flag.
FetchTripAlwaysCold(k) ==
  /\ calls[k].pc = "fetch"
  /\ LET tripSummary == calls[k].summary[1]
         tripId == calls[k].trip
         selected ==
           SelectObjectContent(resultFiles[tripSummary["RecordsFile"].Key], tripId)
     IN \E cut \in PageCuts(selected) :
          calls' = [calls EXCEPT
            ![k].enhanced =
               <<EnhancedTrip(tripSummary, CollectRecords(selected, cut))>>,
            ![k].scans = @ + 1,
            ![k].pc = "put"]
  /\ UNCHANGED <<delivered, catalog, cycles, resultFiles, table, objects, lastWrite, simulator>>

\* Cold: s3.selectObjectContent on the records file and the page loop.
\* Warm: s3.getObject of the stored trip.
FetchTrip(k) ==
  /\ calls[k].pc = "fetch"
  /\ LET tripSummary == calls[k].summary[1]
         tripId == calls[k].trip
     IN IF ~AggregationExecuted(tripSummary)
        THEN LET selected ==
                   SelectObjectContent(resultFiles[tripSummary["RecordsFile"].Key], tripId)
             IN \E cut \in PageCuts(selected) :
                  calls' = [calls EXCEPT
                    ![k].enhanced =
                       <<EnhancedTrip(tripSummary, CollectRecords(selected, cut))>>,
                    ![k].scans = @ + 1,
                    ![k].pc = "put"]
        ELSE IF AggregatedTripKey(tripId) \in DOMAIN objects
             THEN calls' = [calls EXCEPT
                    ![k].result = <<JsonParse(objects[AggregatedTripKey(tripId)])>>,
                    ![k].gets = @ + 1,
                    ![k].pc = "returned"]
             ELSE calls' = [calls EXCEPT ![k].gets = @ + 1, ![k].pc = "error"]
  /\ UNCHANGED <<delivered, catalog, cycles, resultFiles, table, objects, lastWrite, simulator>>

\* s3.putObject of the composed trip at trips/<TripId>.json
StoreAggregatedTrip(k) ==
  /\ calls[k].pc = "put"
  /\ objects' = Put(objects, ObjectKey(calls[k].trip), JsonStringify(calls[k].enhanced[1]))
  /\ calls' = [calls EXCEPT ![k].puts = @ + 1, ![k].pc = "update"]
  /\ UNCHANGED <<delivered, catalog, cycles, resultFiles, table, lastWrite, simulator>>

\* dynamodb.update set AggregationExecuted = true, then the return
UpdateTripSummary(k) ==
  /\ calls[k].pc = "update"
  /\ IF KeyAccepted(UpdateKeyAttr)
     THEN /\ table' = UpdateItem(table, UpdateKeyAttr, calls[k].trip,
                                 "AggregationExecuted", TRUE)
          /\ calls' = [calls EXCEPT ![k].updates = @ + 1,
                                    ![k].result = calls[k].enhanced,
                                    ![k].pc = "returned"]
     ELSE /\ calls' = [calls EXCEPT ![k].updates = @ + 1, ![k].pc = "error"]
          /\ UNCHANGED table
  /\ UNCHANGED <<delivered, catalog, cycles, resultFiles, objects, lastWrite, simulator>>

\* The GET method of trips/{tripId}: a non-proxy Lambda integration.  The
\* integration response of a failed invocation is the one whose
\* selectionPattern matches the error, and the response without a pattern
\* is the default: of any invocation that returned, and of a failed one that
\* no pattern matches.
IntegrationResponses == << [statusCode |-> "200", selectionPattern |-> <<>>] >>

MethodResponses == {"200"}

IntegrationResponse(error) ==
  LET matching == {i \in DOMAIN IntegrationResponses :
                     /\ error # <<>>
                     /\ IntegrationResponses[i].selectionPattern = error}
      default == {i \in DOMAIN IntegrationResponses :
                    IntegrationResponses[i].selectionPattern = <<>>}
  IN IF matching # {}
     THEN IntegrationResponses[CHOOSE i \in matching : \A j \in matching : i <= j]
     ELSE IntegrationResponses[CHOOSE i \in default : TRUE]

\* The answer of the API to the request of an ended call: the status of the
\* integration response and the invocation's payload (the returned value, or
\* the error object of an invocation that threw).
ApiResponse(k) ==
  LET error == IF calls[k].pc = "error" THEN <<"errorMessage">> ELSE <<>>
  IN [statusCode |-> IntegrationResponse(error).statusCode,
      body |-> IF calls[k].pc = "error" THEN error ELSE calls[k].result]

CallStep ==
  \/ \E tripId \in RequestedTrips : StartCall(tripId)
  \/ \E k \in CallIds : GetTripSummary(k)
  \/ \E k \in CallIds : FetchTrip(k)
  \/ \E k \in CallIds : StoreAggregatedTrip(k)
  \/ \E k \in CallIds : UpdateTripSummary(k)

(***************************************************************************)
(* The vehicle simulator.  runSimulationIteration runs on a timer; up to   *)
(* its await of the ingestion it runs without interruption, and the timer  *)
(* may start later iterations while that await is pending.                 *)
(***************************************************************************)
\* simulationIterationCount % 10
TickerPeriod == 10

\* Math.round(Math.random() * 10)
Tickers == 0..10

\* TargetTripDuration * (1 - (Math.random() * 0.3 - 0.15)) lies between 0.85
\* and 1.15 times the configured duration.  TripDuration is a whole number,
\* so the trip's target is kept as the least TripDuration that reaches it.
TargetTripDurations(duration) ==
  IF duration = 0 THEN {0}
  ELSE {n \in 1..(2 * duration) :
          /\ 100 * (n - 1) < 115 * duration
          /\ 85 * duration < 100 * n}

\* TargetTripCount 0 stands for the property not being set.
SimulatorProps ==
  [TargetVehicles : 0..MaxVehicles,
   TargetTripDuration : 0..MaxTripDuration,
   TargetTripCount : 0..MaxTripCount]

\* The state after startSimulation has initialised the simulation data.
\* simulationIterationCount is kept modulo TickerPeriod (it is read as
\* simulationIterationCount % 10 only); `finished` holds the ids of the
\* trips whose TripStatus is FINISHED and `awaiting` the iterations that
\* wait for the ingestion, each with its tickerTrips and its records.
\* `emitted` is the history of the event types put into iterationRecords
\* for each trip, in order, and `lost` the records whose ingestion was
\* pending when the process exited.
NewSimulator(props) ==
  [props |-> props,
   finishedTrips |-> 0,
   trips |-> <<>>,
   simulationIterationCount |-> -1,
   finished |-> {},
   awaiting |-> {},
   emitted |-> <<>>,
   lost |-> {},
   exited |-> FALSE]

\* Variant: the finished trips are not taken off the available trips.
NewTripCountForgettingFinished(props, tripCount, finishedTrips) ==
  IF props.TargetTripCount # 0
  THEN Min(props.TargetTripCount - tripCount, props.TargetVehicles - tripCount)
  ELSE props.TargetVehicles - tripCount

\* Variant: the trips tracked already are not taken off the new trips.
NewTripCountOfTarget(props, tripCount, finishedTrips) ==
  IF props.TargetTripCount # 0
  THEN Min(props.TargetTripCount - tripCount - finishedTrips, props.TargetVehicles)
  ELSE props.TargetVehicles

NewTripCount(props, tripCount, finishedTrips) ==
  IF props.TargetTripCount # 0
  THEN Min(props.TargetTripCount - tripCount - finishedTrips,
           props.TargetVehicles - tripCount)
  ELSE props.TargetVehicles - tripCount

\* The trips a replenishment may create: ids in creation order, any ticker,
\* any target within the spread.
NewTrips(props, count, firstId) ==
  IF count <= 0 THEN {<<>>}
  ELSE {[i \in 1..count |->
           [Id |-> firstId + i - 1,
            TripDuration |-> 0,
            TargetTripDuration |-> choice[i][2],
            TripStatus |-> "ACTIVE",
            Ticker |-> choice[i][1]]] :
        choice \in [1..count ->
                      Tickers \X TargetTripDurations(props.TargetTripDuration)]}

\* The event types an iteration puts into iterationRecords for a trip, in
\* the order of the three concat calls: the trip-finished records of the
\* trips to finish, the engine-start records of the ticker trips whose
\* TripDuration is 0, the keep-alive records of the ticker trips still ACTIVE.
IterationRecords(trip, tickerTrips, tripsToFinish) ==
  (IF trip.Id \in tripsToFinish THEN <<TRIP_FINISHED>> ELSE <<>>)
    \o (IF trip.Id \in tickerTrips /\ trip.TripDuration = 0
        THEN <<ENGINE_START>> ELSE <<>>)
    \o (IF trip.Id \in tickerTrips /\ trip.Id \notin tripsToFinish
        THEN <<KEEP_ALIVE>> ELSE <<>>)

\* The exit test at the end of an iteration, on that iteration's tickerTrips.
TargetReached(props, tickerTrips, finished) ==
  /\ props.TargetTripCount # 0
  /\ Cardinality(tickerTrips \cap finished) >= props.TargetTripCount

\* runSimulationIteration up to the await of the ingestion.  An iteration
\* without records awaits nothing a timer could interleave with and is
\* over within the step.
RunSimulationIteration ==
  /\ simulator # <<>>
  /\ ~simulator.exited
  /\ LET props == simulator.props
         count == (simulator.simulationIterationCount + 1) % TickerPeriod
         ticker == count % 10
         tickerTrips == {t.Id : t \in {x \in Range(simulator.trips) : x.Ticker = ticker}}
         tripsToFinish ==
           {t.Id : t \in {x \in Range(simulator.trips) :
                            x.TripDuration >= x.TargetTripDuration}}
         finishedTrips == simulator.finishedTrips + Cardinality(tripsToFinish)
         trips == SelectSeq(simulator.trips, LAMBDA t : t.Id \notin tripsToFinish)
         newTripCount == NewTripCount(props, Len(trips), finishedTrips)
         ticked == [i \in DOMAIN trips |->
                      IF trips[i].Id \in tickerTrips
                      THEN [trips[i] EXCEPT !.TripDuration = @ + 1]
                      ELSE trips[i]]
         finished == simulator.finished \cup tripsToFinish
         iterationRecords ==
           UNION {{<<trip.Id, type>> :
                     type \in Range(IterationRecords(trip, tickerTrips, tripsToFinish))} :
                  trip \in Range(simulator.trips)}
         records == iterationRecords # {}
     IN /\ Len(trips) + finishedTrips + newTripCount <= MaxTrips
        /\ records => Cardinality(simulator.awaiting) < MaxAwaiting
        /\ \E newTrips \in NewTrips(props, newTripCount, Len(trips) + finishedTrips + 1) :
             simulator' = [simulator EXCEPT
               !.simulationIterationCount = count,
               !.finishedTrips = finishedTrips,
               !.trips = ticked \o newTrips,
               !.finished = finished,
               !.emitted =
                  [id \in DOMAIN simulator.emitted \cup {t.Id : t \in Range(newTrips)} |->
                     IF \E i \in DOMAIN simulator.trips : simulator.trips[i].Id = id
                     THEN simulator.emitted[id] \o IterationRecords(
                            simulator.trips[CHOOSE i \in DOMAIN simulator.trips :
                                              simulator.trips[i].Id = id],
                            tickerTrips, tripsToFinish)
                     ELSE IF id \in DOMAIN simulator.emitted THEN simulator.emitted[id] ELSE <<>>],
               !.awaiting = IF records
                            THEN @ \cup {[ticker |-> ticker,
                                          tickerTrips |-> tickerTrips,
                                          records |-> iterationRecords]}
                            ELSE @]
  /\ UNCHANGED <<delivered, catalog, cycles, resultFiles, table, objects, calls, lastWrite>>

\* The ingestion of an iteration has returned: the exit test.  process.exit
\* ends the process with the ingestion requests of the other iterations
\* pending: records of theirs that were not sent yet are lost.
EndSimulationIteration(iteration) ==
  /\ simulator # <<>>
  /\ ~simulator.exited
  /\ iteration \in simulator.awaiting
  /\ LET exit == TargetReached(simulator.props, iteration.tickerTrips,
                               simulator.finished)
         pending == UNION {other.records : other \in simulator.awaiting \ {iteration}}
     IN \E lost \in IF exit THEN SUBSET pending ELSE {{}} :
          simulator' = [simulator EXCEPT
            !.awaiting = @ \ {iteration},
            !.lost = lost,
            !.exited = exit]
  /\ UNCHANGED <<delivered, catalog, cycles, resultFiles, table, objects, calls, lastWrite>>

InitSimulator ==
  /\ delivered = 0
  /\ catalog = {}
  /\ cycles = <<>>
  /\ resultFiles = <<>>
  /\ table = {}
  /\ objects = <<>>
  /\ calls = <<>>
  /\ lastWrite = [t \in TripIds |-> <<>>]
  /\ \E props \in SimulatorProps : simulator = NewSimulator(props)

EndOfIteration == \E iteration \in simulator.awaiting : EndSimulationIteration(iteration)

NextSimulator ==
  \/ RunSimulationIteration
  \/ EndOfIteration

SpecSimulator == InitSimulator /\ [][NextSimulator]_vars

\* The timer keeps firing and every ingestion request returns.
SpecSimulatorLive ==
  /\ InitSimulator
  /\ [][NextSimulator]_vars
  /\ WF_vars(RunSimulationIteration)
  /\ WF_vars(EndOfIteration)

(***************************************************************************)
(* The system from its deployment: empty stores, no file written.          *)
(***************************************************************************)
Init ==
  /\ delivered = 0
  /\ catalog = {}
  /\ cycles = <<>>
  /\ resultFiles = <<>>
  /\ table = {}
  /\ objects = <<>>
  /\ calls = <<>>
  /\ lastWrite = [t \in TripIds |-> <<>>]
  /\ simulator = <<>>

Next == CycleStep \/ CallStep

Spec == Init /\ [][Next]_vars

(***************************************************************************)
(* The system after one reduction cycle for the first batch file and one   *)
(* first read of trip t1: the handler has put the composed trip and issued *)
(* its update of the summary row, which the table applies only when the    *)
(* key the update names is the table's key.                                *)
(***************************************************************************)
MaterialisedStores ==
  LET cat == StoredPartitions(1)
      tbl == Visible(1, cat)
      input == StateMachineInput(BatchFiles[1].key)
      summaryFile == CHOOSE rows \in QueryOutputs(SUMMARY, tbl, input.QueryFilterExpression) : TRUE
      recordsFile == CHOOSE rows \in QueryOutputs(RECORDS, tbl, input.QueryFilterExpression) : TRUE
      files == (ExecutionName(1, SUMMARY) :> summaryFile)
                 @@ (ExecutionName(1, RECORDS) :> recordsFile)
      tripsSummary == TripsSummary(QueryResults(1), files)
      written == BatchWrite({}, tripsSummary)
  IN /\ catalog = cat
     /\ cycles = << [NewCycle(BatchFiles[1].key) EXCEPT
                       !.stage = "DONE", !.input = input, !.refresh = "ok",
                       !.refreshes = 1, !.q = <<"ok", "ok">>,
                       !.seen = << <<1, cat>>, <<1, cat>> >>,
                       !.writer = "ok", !.rows = tripsSummary] >>
     /\ resultFiles = files
     /\ table = IF KeyAccepted(UpdateKeyAttr)
                THEN UpdateItem(written, UpdateKeyAttr, "t1", "AggregationExecuted", TRUE)
                ELSE written
     /\ objects = (ObjectKey("t1") :>
                     JsonStringify(EnhancedTrip(tripsSummary[1],
                                                SelectObjectContent(recordsFile, "t1"))))
     /\ calls = <<>>
     /\ lastWrite = [t \in TripIds |-> IF t = "t1" THEN <<tripsSummary[1]>> ELSE <<>>]
     /\ simulator = <<>>

InitMaterialised ==
  /\ delivered = 1
  /\ MaterialisedStores

SpecMaterialised == InitMaterialised /\ [][Next]_vars

\* The same stores once the Event Batch Source has written every batch file:
\* the cycles of the later files and the calls run over them.
InitMaterialisedLogWritten ==
  /\ delivered = NumBatches
  /\ MaterialisedStores

\* The reduction pipeline on its own: no step of a call changes what a cycle
\* reads (the written files, the partition catalog, the query outputs).
SpecReduction == Init /\ [][CycleStep]_vars

(***************************************************************************)
(* The reduction pipeline with every task of an execution eventually       *)
(* ending, in success or in failure: an execution that has a step to take  *)
(* takes one.                                                              *)
(***************************************************************************)
CycleAdvance(c) ==
  /\ c \in CycleIds
  /\ \/ PreparePayload(c)
     \/ UpdateAthenaPartitions(c)
     \/ \E b \in Branches : AthenaQuery(c, b)
     \/ CreateTripSummaries(c)
     \/ \E i \in cycles[c].pending : BatchWriteChunk(c, i)

SpecReductionLive ==
  Init /\ [][CycleStep]_vars /\ \A c \in 1..MaxCycles : WF_vars(CycleAdvance(c))

(***************************************************************************)
(* The payload preparation handler on its own: a notification with any key *)
(* of up to MaxSegments segments has started an execution, and a second    *)
(* notification, of the same key or of the first batch file's key, another. *)
(* A segment is the sequence of its '='-separated parts: a plain name, an   *)
(* empty segment, name=value, name= and name=value=more all occur.          *)
(***************************************************************************)
Segments ==
  {<<"year", "2023">>, <<"year", "2024">>, <<"minute", "04">>, <<"hour", "">>,
   <<"device", "v1">>, <<"day", "02", "x">>, <<"part-0001">>, <<"">>}

NotificationKeys ==
  UNION {[1..n -> Segments] : n \in 1..MaxSegments}

InitPayload ==
  /\ delivered = 0
  /\ catalog = {}
  /\ \E k1 \in NotificationKeys : \E k2 \in {k1, BatchFiles[1].key} :
        cycles = <<NewCycle(k1), NewCycle(k2)>>
  /\ resultFiles = <<>>
  /\ table = {}
  /\ objects = <<>>
  /\ calls = <<>>
  /\ lastWrite = [t \in TripIds |-> <<>>]
  /\ simulator = <<>>

NextPayload == \E c \in CycleIds : PreparePayload(c)

SpecPayload == InitPayload /\ [][NextPayload]_vars

(***************************************************************************)
(* The summary writer on its own: one execution whose two queries have      *)
(* succeeded, the summary output holding any number of rows up to MaxRows.  *)
(***************************************************************************)
SummaryFileOf(n) ==
  [i \in 1..n |-> [vehicle_id |-> "v1", trip_id |-> ToString(i),
                   start_date |-> "1", end_date |-> "2", duration |-> "1",
                   event_count |-> "2"]]

InitWriter ==
  /\ delivered = 1
  /\ catalog = StoredPartitions(1)
  /\ \E n \in 0..MaxRows :
        resultFiles = (ExecutionName(1, SUMMARY) :> SummaryFileOf(n))
                        @@ (ExecutionName(1, RECORDS) :> <<>>)
  /\ cycles = << [NewCycle(BatchFiles[1].key) EXCEPT
                    !.stage = "WRITE_SUMMARIES",
                    !.input = StateMachineInput(BatchFiles[1].key),
                    !.refresh = "ok", !.refreshes = 1, !.q = <<"ok", "ok">>,
                    !.seen = << <<1, StoredPartitions(1)>>, <<1, StoredPartitions(1)>> >>,
                    !.writer = "invoked"] >>
  /\ table = {}
  /\ objects = <<>>
  /\ calls = <<>>
  /\ lastWrite = [t \in TripIds |-> <<>>]
  /\ simulator = <<>>

NextWriter ==
  \/ \E c \in CycleIds : CreateTripSummaries(c)
  \/ \E c \in CycleIds : \E i \in cycles[c].pending : BatchWriteChunk(c, i)

SpecWriter == InitWriter /\ [][NextWriter]_vars

(***************************************************************************)
(* The summary writer on any summary file: one row of the file may have    *)
(* cells missing.                                                          *)
(***************************************************************************)
ShortRow(i) == [vehicle_id |-> "v1", trip_id |-> ToString(i)]

InitWriterAnyFile ==
  /\ delivered = 1
  /\ catalog = StoredPartitions(1)
  /\ \E n \in 0..MaxRows : \E short \in 0..n :
        resultFiles =
          (ExecutionName(1, SUMMARY) :>
              [i \in 1..n |-> IF i = short THEN ShortRow(i) ELSE SummaryFileOf(n)[i]])
            @@ (ExecutionName(1, RECORDS) :> <<>>)
  /\ cycles = << [NewCycle(BatchFiles[1].key) EXCEPT
                    !.stage = "WRITE_SUMMARIES",
                    !.input = StateMachineInput(BatchFiles[1].key),
                    !.refresh = "ok", !.refreshes = 1, !.q = <<"ok", "ok">>,
                    !.seen = << <<1, StoredPartitions(1)>>, <<1, StoredPartitions(1)>> >>,
                    !.writer = "invoked"] >>
  /\ table = {}
  /\ objects = <<>>
  /\ calls = <<>>
  /\ lastWrite = [t \in TripIds |-> <<>>]
  /\ simulator = <<>>

SpecWriterAnyFile == InitWriterAnyFile /\ [][NextWriter]_vars

(***************************************************************************)
(* The reduction over a complete event log: every batch file is written    *)
(* before the first notification is handled.                               *)
(***************************************************************************)
InitLogWritten ==
  /\ delivered = NumBatches
  /\ catalog = {}
  /\ cycles = <<>>
  /\ resultFiles = <<>>
  /\ table = {}
  /\ objects = <<>>
  /\ calls = <<>>
  /\ lastWrite = [t \in TripIds |-> <<>>]
  /\ simulator = <<>>

NextLogWritten ==
  \/ \E f \in 1..NumBatches : StartExecution(f)
  \/ \E c \in CycleIds : PreparePayload(c)
  \/ \E c \in CycleIds : UpdateAthenaPartitions(c)
  \/ \E c \in CycleIds : \E b \in Branches : AthenaQuery(c, b)
  \/ \E c \in CycleIds : CreateTripSummaries(c)
  \/ \E c \in CycleIds : \E i \in cycles[c].pending : BatchWriteChunk(c, i)

SpecLogWritten == InitLogWritten /\ [][NextLogWritten]_vars

NextMaterialisedLogWritten == NextLogWritten \/ CallStep

SpecMaterialisedLogWritten ==
  InitMaterialisedLogWritten /\ [][NextMaterialisedLogWritten]_vars

(***************************************************************************)

(* Vocabulary of the claims.                                               *)
(***************************************************************************)
RowOf(tripId) == {item \in table : item[TableKey] = tripId}

FlagSet(tripId) == \E item \in RowOf(tripId) : AggregationExecuted(item)

Stored(tripId) == ObjectKey(tripId) \in DOMAIN objects

Ended(k) == calls[k].pc \in Final

Cold(k) == calls[k].scans > 0

SeenBy(c, b) == Visible(cycles[c].seen[b][1], cycles[c].seen[b][2])

(***************************************************************************)
(* C1.  Cold/warm read equivalence: when a call for a trip that has a      *)
(* summary row and no stored object has ended, and a second call for the   *)
(* same trip starts after it and reads the same row (no summary write in   *)
(* between), both calls return a value, the values are equal, and the      *)
(* second call makes no selective scan.                                    *)
(***************************************************************************)
SameRow(k1, k2) ==
  /\ calls[k1].summary # <<>>
  /\ calls[k2].summary # <<>>
  /\ Without(calls[k1].summary[1], "AggregationExecuted")
       = Without(calls[k2].summary[1], "AggregationExecuted")

InSequence(k1, k2) ==
  /\ k1 \in calls[k2].after
  /\ calls[k1].trip = calls[k2].trip
  /\ \A k \in CallIds : k < k1 => calls[k].trip # calls[k1].trip
  /\ Cold(k1)
  /\ Ended(k2)
  /\ SameRow(k1, k2)

\* C1: two calls in sequence for a trip with no stored object both return,
\* return equal values, and the second makes no selective scan.
C1_ColdWarmEquivalence ==
  \A k1, k2 \in CallIds :
     InSequence(k1, k2) =>
        /\ calls[k1].pc = "returned"
        /\ calls[k2].pc = "returned"
        /\ calls[k1].result = calls[k2].result
        /\ calls[k2].scans = 0

(***************************************************************************)
(* C2.  When a cold-path call has run its steps to the end and the row it  *)
(* read has not been rewritten since, that row has AggregationExecuted set *)
(* and the call has returned the composed object.                          *)
(***************************************************************************)
\* C2: after a cold-path call has ended, the row it read has
\* AggregationExecuted set and the call returned the composed object.
C2_ColdPathMarksRow ==
  \A k \in CallIds :
     (Cold(k) /\ Ended(k) /\ lastWrite[calls[k].trip] = calls[k].summary) =>
        /\ FlagSet(calls[k].trip)
        /\ calls[k].pc = "returned"
        /\ calls[k].result = calls[k].enhanced

(***************************************************************************)
(* C3.  In every state a summary row with AggregationExecuted set has its  *)
(* object stored at the canonical key; the object is stored before the     *)
(* update of the row is issued, and no stored object is ever removed.      *)
(***************************************************************************)
FlagImpliesObject ==
  /\ \A tripId \in TripIds : FlagSet(tripId) => Stored(tripId)
  /\ \A k \in CallIds :
        (calls[k].pc = "update" \/ calls[k].updates > 0) => Stored(calls[k].trip)

ObjectsKept ==
  \A key \in DOMAIN objects : key \in DOMAIN objects'

\* C3: AggregationExecuted set implies the object is stored; the put comes
\* before the update is issued; no object is removed.
C3_FlagImpliesObject == []FlagImpliesObject /\ [][ObjectsKept]_vars

\* C3 witness: a call has issued its update and its object is stored.
C3_Witness ==
  \E k \in CallIds :
     /\ calls[k].updates > 0
     /\ Stored(calls[k].trip)
     /\ objects[ObjectKey(calls[k].trip)] = JsonStringify(calls[k].enhanced[1])

(***************************************************************************)
(* C4.  Once a trip's summary row has AggregationExecuted set, it keeps    *)
(* it, whatever step a reduction cycle or a call takes next.               *)
(***************************************************************************)
\* C4: no step takes AggregationExecuted of a trip from set to not set.
\* The table rejects the handler's update (UpdateKeyAttr is not TableKey), so
\* no state has the flag set and the property has no instance.
C4_FlagNeverReset ==
  [][\A tripId \in Trips : FlagSet(tripId) => FlagSet(tripId)']_vars

(***************************************************************************)
(* C5.  A call whose dynamodb.get finds no row ends in an error, has made  *)
(* no selective scan, no object put or get and no summary update, and the  *)
(* step that ends it changes neither store.                                *)
(***************************************************************************)
NoRowEndsInError ==
  \A k \in CallIds :
     (calls[k].pc # "get" /\ calls[k].summary = <<>>) =>
        /\ calls[k].pc = "error"
        /\ calls[k].result = <<>>
        /\ calls[k].scans = 0
        /\ calls[k].puts = 0
        /\ calls[k].gets = 0
        /\ calls[k].updates = 0

NoRowLeavesStores ==
  \A k \in CallIds :
     (calls[k].pc = "get" /\ calls'[k].pc # "get" /\ calls'[k].summary = <<>>) =>
        /\ table' = table
        /\ objects' = objects
        /\ resultFiles' = resultFiles

\* C5: a call that finds no row ends in an error without any further store
\* call and without changing a store.
C5_NoRowIsAnError == []NoRowEndsInError /\ [][NoRowLeavesStores]_vars

\* C5 witness: a call for the unknown trip has ended in an error while the
\* table holds rows.
C5_Witness ==
  \E k \in CallIds :
     /\ calls[k].trip = UnknownTrip
     /\ calls[k].pc = "error"
     /\ table # {}

(***************************************************************************)
(* C6.  A cycle in which a query failed is FAILED and its summary writer   *)
(* was never invoked; a cycle that is DONE had both queries succeed and    *)
(* its summary write succeed.                                              *)
(***************************************************************************)
\* C6: a failed query makes the cycle FAILED with the writer never invoked;
\* DONE needs both queries and the summary write to have succeeded.
C6_QueryFailureFailsCycle ==
  \A c \in CycleIds :
     /\ (\E b \in Branches : cycles[c].q[b] = "failed") =>
           /\ cycles[c].stage = "FAILED"
           /\ cycles[c].writer = "idle"
           /\ cycles[c].rows = <<>>
     /\ cycles[c].stage = "DONE" =>
           /\ cycles[c].q = <<"ok", "ok">>
           /\ cycles[c].writer = "ok"

\* C6 witness: one cycle FAILED by its records query after its summary query
\* succeeded, and one cycle DONE with rows written.
C6_Witness ==
  /\ \E c \in CycleIds :
        /\ cycles[c].q[SUMMARY] = "ok"
        /\ cycles[c].q[RECORDS] = "failed"
        /\ cycles[c].stage = "FAILED"
  /\ \E c \in CycleIds : cycles[c].stage = "DONE" /\ cycles[c].rows # <<>>

(***************************************************************************)
(* C7.  The stages of a cycle run in the order PREPARE_INPUT,              *)
(* REFRESH_PARTITIONS, RUN_QUERIES, WRITE_SUMMARIES: the refresh is issued *)
(* after the input is prepared, a query starts only after the refresh of   *)
(* its cycle succeeded, and the writer only after both queries succeeded.  *)
(***************************************************************************)
StageOrder ==
  {<<"PREPARE_INPUT", "REFRESH_PARTITIONS">>,
   <<"REFRESH_PARTITIONS", "RUN_QUERIES">>,
   <<"RUN_QUERIES", "WRITE_SUMMARIES">>,
   <<"WRITE_SUMMARIES", "DONE">>,
   <<"REFRESH_PARTITIONS", "FAILED">>,
   <<"RUN_QUERIES", "FAILED">>,
   <<"WRITE_SUMMARIES", "FAILED">>}

StagesInOrder ==
  \A c \in CycleIds :
     /\ cycles[c].refresh # "idle" => cycles[c].input # <<>>
     /\ \A b \in Branches : cycles[c].q[b] # "idle" => cycles[c].refresh = "ok"
     /\ cycles[c].writer # "idle" => cycles[c].q = <<"ok", "ok">>
     /\ cycles[c].stage = "RUN_QUERIES" => cycles[c].refresh = "ok"
     /\ cycles[c].stage \in {"WRITE_SUMMARIES", "DONE"} => cycles[c].q = <<"ok", "ok">>

StagesAdvance ==
  \A c \in CycleIds :
     cycles'[c].stage # cycles[c].stage =>
        <<cycles[c].stage, cycles'[c].stage>> \in StageOrder

\* C7: prepare, then refresh, then the queries, then the writer, in each cycle.
C7_StagesInOrder == []StagesInOrder /\ [][StagesAdvance]_vars

\* C7 witness: a cycle went through every stage and wrote rows.
C7_Witness ==
  \E c \in CycleIds : cycles[c].stage = "DONE" /\ cycles[c].rows # <<>>

(***************************************************************************)
(* C8.  A cycle whose partition refresh failed is FAILED; no query of it   *)
(* was started, its writer was not invoked, the refresh ran once, and the  *)
(* cycle takes no further step.                                            *)
(***************************************************************************)
RefreshFailureFatal ==
  \A c \in CycleIds :
     /\ cycles[c].refreshes <= 1
     /\ cycles[c].refresh = "failed" =>
           /\ cycles[c].stage = "FAILED"
           /\ cycles[c].q = <<"idle", "idle">>
           /\ cycles[c].writer = "idle"

FailedRefreshStays ==
  \A c \in CycleIds : cycles[c].refresh = "failed" => cycles'[c] = cycles[c]

\* C8: a failed refresh ends the cycle in FAILED: no query, no writer, no
\* retry, no further step.
C8_RefreshFailureFatal == []RefreshFailureFatal /\ [][FailedRefreshStays]_vars

\* C8 witness: one cycle FAILED by its refresh, another one DONE.
C8_Witness ==
  /\ \E c \in CycleIds : cycles[c].refresh = "failed" /\ cycles[c].stage = "FAILED"
  /\ \E c \in CycleIds : cycles[c].stage = "DONE"

(***************************************************************************)
(* C9.  The summary table never holds two items of one trip id, and the    *)
(* item of a trip is the item of the latest write for that trip.           *)
(***************************************************************************)
\* C9: one item per trip id at most, and it is the item of the latest write.
C9_OneEntryPerTrip ==
  /\ \A i, j \in table : i[TableKey] = j[TableKey] => i = j
  /\ \A tripId \in TripIds :
        IF lastWrite[tripId] = <<>> THEN RowOf(tripId) = {}
        ELSE RowOf(tripId) = {lastWrite[tripId][1]}

WroteTrip(c, tripId) ==
  /\ cycles[c].stage = "DONE"
  /\ \E i \in DOMAIN cycles[c].rows : cycles[c].rows[i][TableKey] = tripId

\* C9 witness: two cycles wrote a row of trip t1 and the table holds one.
C9_Witness ==
  \E c1, c2 \in CycleIds :
     /\ c1 # c2
     /\ WroteTrip(c1, "t1")
     /\ WroteTrip(c2, "t1")
     /\ Cardinality(RowOf("t1")) = 1

(***************************************************************************)
(* C10.  Two cycles run to DONE with the same notification key over the    *)
(* same event log.  As stated: they store identical rows.  As amended:     *)
(* their rows are equal in every field but RecordsFile, each row's         *)
(* RecordsFile names the records output of its own cycle, and the two      *)
(* records outputs hold the same rows.                                     *)
(***************************************************************************)
SameInputs(c1, c2) ==
  /\ c1 # c2
  /\ cycles[c1].stage = "DONE"
  /\ cycles[c2].stage = "DONE"
  /\ cycles[c1].key = cycles[c2].key
  /\ \A b \in Branches : SeenBy(c1, b) = SeenBy(c2, b)

Derived(c) == {Without(row, "RecordsFile") : row \in Range(cycles[c].rows)}

OwnRecordsFile(c) ==
  \A row \in Range(cycles[c].rows) :
     row["RecordsFile"] = QueryResultFile(OutputLocation(ExecutionName(c, RECORDS)))

\* C10 as stated: a re-run with identical inputs stores identical rows.
C10_RerunIdenticalRows ==
  \A c1, c2 \in CycleIds :
     SameInputs(c1, c2) => Range(cycles[c1].rows) = Range(cycles[c2].rows)

\* C10 as amended: identical in every field but RecordsFile, which names the
\* records output of the row's own cycle; the records outputs hold the same rows.
C10_RerunIdenticalButRecordsFile ==
  \A c1, c2 \in CycleIds :
     SameInputs(c1, c2) =>
        /\ Derived(c1) = Derived(c2)
        /\ OwnRecordsFile(c1)
        /\ OwnRecordsFile(c2)
        /\ Range(resultFiles[ExecutionName(c1, RECORDS)])
             = Range(resultFiles[ExecutionName(c2, RECORDS)])

\* C10 witness: two cycles DONE with identical inputs whose rows differ.
C10_Witness ==
  \E c1, c2 \in CycleIds :
     /\ SameInputs(c1, c2)
     /\ cycles[c1].rows # <<>>
     /\ Range(cycles[c1].rows) # Range(cycles[c2].rows)

(***************************************************************************)
(* C11.  The rows a cycle's writer parsed are the rows of the summary      *)
(* query's output of that cycle, and every one of them, and so every item  *)
(* the writer stores, carries as RecordsFile the bucket and file name of   *)
(* the records query's output of that cycle.                               *)
(***************************************************************************)
WriterRan(c) == cycles[c].writer \in {"writing", "ok", "failed"}

RecordsOutput(c) == [Bucket |-> ReducedBucket, Key |-> ExecutionName(c, RECORDS)]

ParsedRows(c) ==
  [i \in DOMAIN cycles[c].rows |-> Without(cycles[c].rows[i], "RecordsFile")]

StoredBy(item) == {c \in CycleIds : WriterRan(c) /\ item \in Range(cycles[c].rows)}

\* C11: every row of a cycle's writer has the records output of that cycle as
\* RecordsFile and was parsed from the summary output of that cycle.
C11_RecordsFileOfOwnCycle ==
  /\ \A c \in CycleIds :
        WriterRan(c) =>
           /\ ParsedRows(c) = resultFiles[ExecutionName(c, SUMMARY)]
           /\ \A i \in DOMAIN cycles[c].rows :
                 /\ cycles[c].rows[i]["RecordsFile"] = RecordsOutput(c)
                 /\ cycles[c].rows[i]["RecordsFile"].Key # ExecutionName(c, SUMMARY)
                 /\ \A d \in CycleIds \ {c}, b \in Branches :
                       cycles[c].rows[i]["RecordsFile"].Key # ExecutionName(d, b)
  /\ \A item \in table :
        /\ StoredBy(item) # {}
        /\ \A c \in StoredBy(item) : item["RecordsFile"] = RecordsOutput(c)

\* C11 witness: two cycles have stored rows and the table holds an item.
C11_Witness ==
  /\ table # {}
  /\ \E c1, c2 \in CycleIds :
        /\ c1 # c2
        /\ cycles[c1].stage = "DONE" /\ cycles[c1].rows # <<>>
        /\ cycles[c2].stage = "DONE" /\ cycles[c2].rows # <<>>

(***************************************************************************)
(* C12.  The chunks the writer builds from its parsed rows have 1 to 25    *)
(* rows each, their concatenation in order is the parsed row list (so      *)
(* every row is in exactly one chunk), the requests it issues are one per  *)
(* chunk, and for no parsed row there is no chunk and no write.            *)
(***************************************************************************)
RECURSIVE Flatten(_)
Flatten(chunks) ==
  IF chunks = <<>> THEN <<>> ELSE Head(chunks) \o Flatten(Tail(chunks))

RECURSIVE TotalLen(_)
TotalLen(chunks) ==
  IF chunks = <<>> THEN 0 ELSE Len(Head(chunks)) + TotalLen(Tail(chunks))

Written(c) == UNION {Range(TripSummaryChunks(cycles[c].rows)[i]) :
                       i \in DOMAIN TripSummaryChunks(cycles[c].rows) \ cycles[c].pending}

\* C12: every chunk has between 1 and 25 rows, the chunks in order make up
\* the parsed rows, and an empty result issues no write.
C12_ChunksPartitionRows ==
  \A c \in CycleIds :
     WriterRan(c) =>
        LET rows == cycles[c].rows
            chunks == TripSummaryChunks(rows)
        IN /\ \A i \in DOMAIN chunks : Len(chunks[i]) >= 1 /\ Len(chunks[i]) <= 25
           /\ Flatten(chunks) = rows
           /\ TotalLen(chunks) = Len(rows)
           /\ cycles[c].pending \subseteq DOMAIN chunks
           /\ table \subseteq Written(c)
           /\ cycles[c].writer = "ok" => cycles[c].pending = {}
           /\ rows = <<>> => chunks = <<>> /\ cycles[c].pending = {} /\ table = {}

\* C12 witness: a result of more than two full chunks was written whole, the
\* last chunk being a short one.
C12_Witness ==
  \E c \in CycleIds :
     /\ cycles[c].writer = "ok"
     /\ Len(cycles[c].rows) > 2 * ChunkSize
     /\ Len(TripSummaryChunks(cycles[c].rows)) = 3
     /\ Len(TripSummaryChunks(cycles[c].rows)[3]) < ChunkSize
     /\ Cardinality(table) = Len(cycles[c].rows)

(***************************************************************************)
(* C13.  Partition extraction.  For every key, the extracted mapping has,  *)
(* for every name that a segment with '=' gives, the value of the last     *)
(* such segment (the text up to a further '=', if there is one); names no  *)
(* segment gives keep their initial value; segments without '=' change     *)
(* nothing; and the handler does not fail on any key.                      *)
(***************************************************************************)
Named(key, name) == {i \in DOMAIN key : Len(key[i]) >= 2 /\ key[i][1] = name}

LastOf(S) == CHOOSE i \in S : \A j \in S : j <= i

ValueIn(key, name) ==
  IF Named(key, name) = {} THEN "" ELSE key[LastOf(Named(key, name))][2]

NamesIn(key) == {key[i][1] : i \in {j \in DOMAIN key : Len(key[j]) >= 2}}

WellFormed(key) == SelectSeq(key, LAMBDA segment : Len(segment) >= 2)

ExtractionComplete(c) ==
  LET key == cycles[c].key
      raw == ExtractPartitions(key)
  IN /\ DOMAIN raw = Range(PartitionNames) \cup NamesIn(key)
     /\ \A name \in DOMAIN raw : raw[name] = ValueIn(key, name)
     /\ \A i \in DOMAIN key :
           (Len(key[i]) = 2 /\ \A j \in Named(key, key[i][1]) : j <= i)
              => raw[key[i][1]] = key[i][2]

SkipSafe(c) ==
  ExtractPartitions(cycles[c].key) = ExtractPartitions(WellFormed(cycles[c].key))

NeverRaises(c) ==
  /\ cycles[c].stage = "PREPARE_INPUT" => ENABLED PreparePayload(c)
  /\ cycles[c].stage # "PREPARE_INPUT" =>
        /\ cycles[c].stage = "REFRESH_PARTITIONS"
        /\ cycles[c].input # <<>>

\* C13: every name=value segment gives name -> value, a segment without '='
\* is skipped and changes nothing, and no key makes the handler fail.
C13_ExtractionCompleteSkipSafe ==
  \A c \in CycleIds : ExtractionComplete(c) /\ SkipSafe(c) /\ NeverRaises(c)

\* C13 witness: the handler has returned for a key with a name=value segment
\* after a segment without '='.
C13_Witness ==
  \E c \in CycleIds :
     /\ cycles[c].stage = "REFRESH_PARTITIONS"
     /\ \E i, j \in DOMAIN cycles[c].key :
           /\ i < j
           /\ Len(cycles[c].key[i]) < 2
           /\ Len(cycles[c].key[j]) = 2
           /\ ExtractPartitions(cycles[c].key)[cycles[c].key[j][1]] = cycles[c].key[j][2]
           /\ cycles[c].key[j][2] # ""

(***************************************************************************)
(* C14.  The handler's output carries, for year, month, day, hour and      *)
(* minute in this order, the value the key gives the name, and the empty   *)
(* string for a name the key does not give.                                *)
(***************************************************************************)
Prepared(c) == cycles[c].input # <<>>

\* C14: the output maps each recognised partition name to its value in the
\* key, and to the empty string when the key has no segment of that name.
C14_RecognisedNamesDefaultEmpty ==
  \A c \in CycleIds :
     Prepared(c) =>
        /\ DOMAIN cycles[c].input.FormattedDate = DOMAIN PartitionNames
        /\ PartitionNames = <<"year", "month", "day", "hour", "minute">>
        /\ \A i \in DOMAIN PartitionNames :
              /\ Named(cycles[c].key, PartitionNames[i]) = {}
                    => cycles[c].input.FormattedDate[i] = ""
              /\ Named(cycles[c].key, PartitionNames[i]) # {}
                    => cycles[c].input.FormattedDate[i]
                          = cycles[c].key[LastOf(Named(cycles[c].key, PartitionNames[i]))][2]

\* C14 witness: one prepared execution whose key gives a year and no month,
\* another whose key gives all five names.
C14_Witness ==
  \E c1, c2 \in CycleIds :
     /\ Prepared(c1) /\ Prepared(c2)
     /\ cycles[c1].input.FormattedDate[1] = "2024"
     /\ cycles[c1].input.FormattedDate[2] = ""
     /\ Named(cycles[c1].key, "month") = {}
     /\ \A i \in DOMAIN PartitionNames : cycles[c2].input.FormattedDate[i] # ""

(***************************************************************************)
(* C15.  The filter expression is the five conjuncts on year, month, day,  *)
(* hour and minute, in this order, with the extracted values; the query    *)
(* strings of the two branches both hold this filter in place of the       *)
(* placeholder; executions of the same key get the same two query strings. *)
(***************************************************************************)
Conjunct(name, value) == <<name, value>>

Embeds(queryString, filter) ==
  /\ \E i \in 0..(Len(queryString) - Len(filter)) :
        SubSeq(queryString, i + 1, i + Len(filter)) = filter
  /\ \A i \in DOMAIN queryString : queryString[i] # Placeholder

\* C15: the filter is year, month, day, hour, minute with the extracted values,
\* both query strings embed it, and the same key gives the same query strings.
C15_FilterEmbeddedInBothQueries ==
  /\ \A c \in CycleIds :
        Prepared(c) =>
           LET filter == cycles[c].input.QueryFilterExpression
           IN /\ filter = << Conjunct("year", ValueIn(cycles[c].key, "year")),
                             Conjunct("month", ValueIn(cycles[c].key, "month")),
                             Conjunct("day", ValueIn(cycles[c].key, "day")),
                             Conjunct("hour", ValueIn(cycles[c].key, "hour")),
                             Conjunct("minute", ValueIn(cycles[c].key, "minute")) >>
              /\ \A b \in Branches :
                    /\ Embeds(QueryString(cycles[c].input, b), filter)
                    /\ FilterOf(QueryString(cycles[c].input, b)) = filter
              /\ QueryString(cycles[c].input, SUMMARY) # QueryString(cycles[c].input, RECORDS)
  /\ \A c1, c2 \in CycleIds :
        (Prepared(c1) /\ Prepared(c2) /\ cycles[c1].key = cycles[c2].key) =>
           \A b \in Branches :
              QueryString(cycles[c1].input, b) = QueryString(cycles[c2].input, b)

\* C15 witness: two executions of the same key are prepared, and the filter
\* names the minute 04 of the key.
C15_Witness ==
  \E c1, c2 \in CycleIds :
     /\ c1 # c2
     /\ Prepared(c1) /\ Prepared(c2)
     /\ cycles[c1].key = cycles[c2].key
     /\ cycles[c1].input.QueryFilterExpression[5] = Conjunct("minute", "04")
     /\ cycles[c1].input.QueryFilterExpression[1] = Conjunct("year", "2024")

(***************************************************************************)
(* C16.  A notification of a written file starts an execution whatever     *)
(* executions there are already, also of the same key; the step that       *)
(* takes the notification adds exactly one execution, with the key of a    *)
(* written file, and leaves the other executions and their keys alone.     *)
(***************************************************************************)
EveryFileStartsOne ==
  \A f \in 1..delivered : Len(cycles) < MaxCycles => ENABLED StartExecution(f)

OneCyclePerNotification ==
  /\ Len(cycles') \in {Len(cycles), Len(cycles) + 1}
  /\ \A c \in DOMAIN cycles : cycles'[c].key = cycles[c].key
  /\ Len(cycles') = Len(cycles) + 1 =>
        /\ \E f \in 1..delivered : cycles'[Len(cycles')] = NewCycle(BatchFiles[f].key)
        /\ SubSeq(cycles', 1, Len(cycles)) = cycles

\* C16: every notification starts exactly one cycle with the file's key, with
\* no filtering and no deduplication.
C16_EveryNotificationStartsOneCycle ==
  []EveryFileStartsOne /\ [][OneCyclePerNotification]_vars

\* C16 witness: two notifications of the same key have started two cycles.
C16_Witness ==
  /\ Len(cycles) = 2
  /\ cycles[1].key = cycles[2].key
  /\ cycles[1].stage # "PREPARE_INPUT"

(***************************************************************************)
(* C17.  A call that returned carries the summary fields of its trip and   *)
(* all the rows of that trip in the records file the summary names.        *)
(***************************************************************************)
RecordsOf(trip, tripId) ==
  SelectObjectContent(resultFiles[trip["RecordsFile"].Key], tripId)

CompleteTrip(trip, tripId) ==
  /\ Has(trip, TableKey) /\ trip[TableKey] = tripId
  /\ Has(trip, "RecordsFile")
  /\ Has(trip, "Records")
  /\ trip["Records"] = RecordsOf(trip, tripId)

\* C17: a call that returns a value returns the complete trip: no returned
\* object misses a record of the trip.  A call returns a value after an
\* applied update or on the warm path; with the update rejected every call
\* ends in an error and the first disjunct is the only one with an instance.
C17_ReturnsCompleteOrError ==
  \A k \in CallIds :
     Ended(k) =>
        \/ calls[k].pc = "error" /\ calls[k].result = <<>>
        \/ /\ calls[k].pc = "returned"
           /\ calls[k].result # <<>>
           /\ CompleteTrip(calls[k].result[1], calls[k].trip)

(***************************************************************************)
(* C18.  Two calls for the same trip that overlap in time and both take    *)
(* the cold path compose equal trips; once both have stored theirs the     *)
(* object at the trip's key is that trip; and both return it.              *)
(***************************************************************************)
Overlapping(k1, k2) ==
  /\ k1 # k2
  /\ calls[k1].trip = calls[k2].trip
  /\ k1 \notin calls[k2].after
  /\ k2 \notin calls[k1].after

Composed(k) == calls[k].enhanced # <<>>

\* C18: concurrent first reads of a trip compose equal objects, leave that
\* object at the trip's key and return equal values.
C18_ConcurrentFirstReadsAgree ==
  \A k1, k2 \in CallIds :
     (Overlapping(k1, k2) /\ Composed(k1) /\ Composed(k2)) =>
        /\ calls[k1].enhanced = calls[k2].enhanced
        /\ (calls[k1].puts > 0 /\ calls[k2].puts > 0) =>
              objects[ObjectKey(calls[k1].trip)] = JsonStringify(calls[k1].enhanced[1])
        /\ (Ended(k1) /\ Ended(k2)) =>
              /\ calls[k1].pc = "returned"
              /\ calls[k2].pc = "returned"
              /\ calls[k1].result = calls[k2].result

(***************************************************************************)
(* C19.  For every row a cycle's writer stores, the records file the row   *)
(* names holds every event of the row's trip that was in the event log     *)
(* when the row was computed, whatever its partition, and the file is      *)
(* ordered by trip and event date.                                         *)
(***************************************************************************)
EventLog(n) == UNION {TableRows(BatchFiles[i]) : i \in 1..n}

EventsOfTrip(c, tripId) ==
  {RecordRow(r) : r \in {e \in EventLog(cycles[c].seen[SUMMARY][1]) : e.tripid = tripId}}

InOrder(file) ==
  \A i, j \in DOMAIN file :
     i < j => \/ Rank(file[i].tripid) < Rank(file[j].tripid)
              \/ /\ file[i].tripid = file[j].tripid
                 /\ \E di, dj \in 0..9 :
                       /\ ToString(di) = file[i].eventdate
                       /\ ToString(dj) = file[j].eventdate
                       /\ di <= dj

\* C19: the records file of every stored row holds every event of the row's
\* trip, from any partition, ordered by trip and event date.
C19_RecordsFileComplete ==
  \A c \in CycleIds :
     WriterRan(c) =>
        \A i \in DOMAIN cycles[c].rows :
           LET row == cycles[c].rows[i]
               file == resultFiles[row["RecordsFile"].Key]
           IN /\ Range(SelectObjectContent(file, row[TableKey]))
                   = EventsOfTrip(c, row[TableKey])
              /\ InOrder(file)

(***************************************************************************)
(* C20.  When both queries of a cycle have succeeded, the trips of the     *)
(* summary output are the trips of the records output, and the event count *)
(* of every summary row is the number of rows of its trip in the records   *)
(* output.                                                                 *)
(***************************************************************************)
BothQueriesDone(c) == cycles[c].q = <<"ok", "ok">>

SummaryOutput(c) == resultFiles[ExecutionName(c, SUMMARY)]

ReducedOutput(c) == resultFiles[ExecutionName(c, RECORDS)]

\* C20: the two outputs of a cycle name the same trips, and each summary
\* row counts the rows of its trip in the records output.
C20_QueryOutputsLinked ==
  \A c \in CycleIds :
     BothQueriesDone(c) =>
        /\ {row.trip_id : row \in Range(SummaryOutput(c))}
             = {r.tripid : r \in Range(ReducedOutput(c))}
        /\ \A row \in Range(SummaryOutput(c)) :
              row.event_count
                = ToString(Len(SelectObjectContent(ReducedOutput(c), row.trip_id)))

(***************************************************************************)
(* C21.  Every execution that has started reaches DONE or FAILED; until    *)
(* then it has a step to take (nothing stops it part-way), and once there  *)
(* it stays there.                                                         *)
(***************************************************************************)
Terminated(c) == c \in CycleIds /\ cycles[c].stage \in {"DONE", "FAILED"}

KeepsGoing ==
  \A c \in CycleIds : ~Terminated(c) => ENABLED CycleAdvance(c)

StaysTerminated ==
  \A c \in CycleIds : Terminated(c) => cycles'[c].stage = cycles[c].stage

\* C21: a started cycle eventually reaches DONE or FAILED and is never
\* stopped before.
C21_EveryCycleTerminates ==
  /\ \A c \in 1..MaxCycles : (c \in CycleIds) ~> Terminated(c)
  /\ []KeepsGoing
  /\ [][StaysTerminated]_vars

\* C21 witness: of two cycles that ended, one wrote its rows and the other
\* failed in its writer after both queries had succeeded.
C21_Witness ==
  \E c1, c2 \in CycleIds :
     /\ cycles[c1].stage = "DONE" /\ cycles[c1].rows # <<>>
     /\ cycles[c2].stage = "FAILED" /\ cycles[c2].writer = "failed"

(***************************************************************************)
(* C22.  Summary rows are for the trips finished in the key's partition.   *)
(***************************************************************************)
\* The events a query of the cycle could read: the events of the files
\* written when it ran whose partition was registered.
EventsSeen(c, b) ==
  UNION {BatchFiles[i].events :
           i \in {j \in 1..cycles[c].seen[b][1] :
                     PartitionOf(BatchFiles[j].key) \in cycles[c].seen[b][2]}}

\* The events of the files in the partition that the cycle's key names.
EventsInKeyPartition(c, b) ==
  UNION {BatchFiles[i].events :
           i \in {j \in 1..cycles[c].seen[b][1] :
                     /\ PartitionOf(BatchFiles[j].key) \in cycles[c].seen[b][2]
                     /\ PartitionOf(BatchFiles[j].key) = PartitionOf(cycles[c].key)}}

FinishedInKeyPartition(c, b) ==
  {e.tripid : e \in {x \in EventsInKeyPartition(c, b) : x.eventtype = TRIP_FINISHED}}

RowsOfTrip(file, tripId) == {i \in DOMAIN file : file[i].trip_id = tripId}

\* C22: the summary output of a cycle has exactly one row for each trip with
\* a trip-finished event in the partition of the cycle's key and no row for
\* any other trip, and the rows the cycle's writer stores are of those trips.
C22_RowsOnlyForTripsFinishedInPartition ==
  \A c \in CycleIds :
     /\ cycles[c].q[SUMMARY] = "ok" =>
           /\ \A tripId \in FinishedInKeyPartition(c, SUMMARY) :
                 Cardinality(RowsOfTrip(SummaryOutput(c), tripId)) = 1
           /\ \A i \in DOMAIN SummaryOutput(c) :
                 SummaryOutput(c)[i].trip_id \in FinishedInKeyPartition(c, SUMMARY)
     /\ WriterRan(c) =>
           \A item \in Range(cycles[c].rows) :
              item[TableKey] \in FinishedInKeyPartition(c, SUMMARY)

\* A cycle keyed on the first partition has stored the rows of t1 and t2
\* while t3 (finished in the next partition) and t4 (never finished) are in
\* the table the query read.
C22_Witness ==
  \E c \in CycleIds :
     /\ cycles[c].stage = "DONE"
     /\ cycles[c].key = BatchFiles[1].key
     /\ {e.tripid : e \in EventsSeen(c, SUMMARY)} = {"t1", "t2", "t3", "t4"}
     /\ {item[TableKey] : item \in Written(c)} = {"t1", "t2"}
     /\ Written(c) \subseteq table

(***************************************************************************)
(* C30.  Trips finished without an engine start on record.                 *)
(***************************************************************************)
EventsOfType(c, tripId, type) ==
  {e \in EventsSeen(c, SUMMARY) : e.tripid = tripId /\ e.eventtype = type}

FinishOf(c, tripId) ==
  CHOOSE e \in EventsInKeyPartition(c, SUMMARY) :
     e.tripid = tripId /\ e.eventtype = TRIP_FINISHED

\* C30: the summary output has a row for every trip finished in the filtered
\* partition; the row of a trip without an engine-start row has an empty
\* (null) start date and duration, and the row of any other trip has the
\* start date of its engine start and as duration the seconds from it to the
\* end date.
C30_RowWithoutEngineStart ==
  \A c \in CycleIds :
     cycles[c].q[SUMMARY] = "ok" =>
        \A tripId \in FinishedInKeyPartition(c, SUMMARY) :
           /\ RowsOfTrip(SummaryOutput(c), tripId) # {}
           /\ \A i \in RowsOfTrip(SummaryOutput(c), tripId) :
                 LET row == SummaryOutput(c)[i]
                     starts == EventsOfType(c, tripId, ENGINE_START)
                 IN /\ row.end_date = ToString(FinishOf(c, tripId).eventdate)
                    /\ IF starts = {}
                       THEN row.start_date = "" /\ row.duration = ""
                       ELSE \E e \in starts :
                              /\ row.start_date = ToString(e.eventdate)
                              /\ row.duration =
                                    ToString(FinishOf(c, tripId).eventdate - e.eventdate)

\* One cycle's output has the row of t3 without start date and duration,
\* another's the row of t1 with the 3 seconds from date 1 to date 4.
C30_Witness ==
  \E c, d \in CycleIds :
     /\ cycles[c].q[SUMMARY] = "ok" /\ cycles[d].q[SUMMARY] = "ok"
     /\ \E i \in DOMAIN SummaryOutput(c) :
           /\ SummaryOutput(c)[i].trip_id = "t3"
           /\ SummaryOutput(c)[i].start_date = ""
           /\ SummaryOutput(c)[i].duration = ""
           /\ SummaryOutput(c)[i].end_date = "9"
     /\ \E i \in DOMAIN SummaryOutput(d) :
           /\ SummaryOutput(d)[i].trip_id = "t1"
           /\ SummaryOutput(d)[i].start_date = "1"
           /\ SummaryOutput(d)[i].duration = "3"

(***************************************************************************)
(* C23.  The answer of GET trips/{tripId}.                                 *)
(***************************************************************************)
SuccessStatus(statusCode) == statusCode = "200"

\* The trip had a row in the summary table when the call read it.
KnownTo(k) == calls[k].summary # <<>>

\* C23: a call for a trip with a summary row is answered with a success
\* status and the aggregated trip as body, and a call for a trip without one
\* is answered with a status that is not a success status.
C23_KnownTripBodyUnknownTripError ==
  \A k \in CallIds :
     Ended(k) =>
        IF KnownTo(k)
        THEN /\ SuccessStatus(ApiResponse(k).statusCode)
             /\ ApiResponse(k).body # <<>>
             /\ ApiResponse(k).body = calls[k].result
             /\ Has(ApiResponse(k).body[1], "Records")
             /\ ApiResponse(k).body[1][TableKey] = calls[k].trip
        ELSE ~SuccessStatus(ApiResponse(k).statusCode)

(***************************************************************************)
(* C26.  The Records list of the cold path.                                *)
(***************************************************************************)
\* The rows of the named records file with the requested trip id, in the
\* order of the file.
RowsOfRequestedTrip(k) ==
  LET file == resultFiles[calls[k].summary[1]["RecordsFile"].Key]
  IN [i \in DOMAIN SelectSeq(file, LAMBDA r : r.tripid = calls[k].trip) |->
        SelectSeq(file, LAMBDA r : r.tripid = calls[k].trip)[i]]

\* C26: the Records of a trip composed on the cold path are the rows of the
\* records file with the requested trip id, each once and in file order.
C26_ColdRecordsAreTheTripsRows ==
  \A k \in CallIds :
     Composed(k) => calls[k].enhanced[1]["Records"] = RowsOfRequestedTrip(k)

(***************************************************************************)
(* C27.  The warm path reads and leaves the stores as they are.            *)
(***************************************************************************)
\* The call read a summary row with AggregationExecuted set.
Warm(k) == calls[k].summary # <<>> /\ AggregationExecuted(calls[k].summary[1])

WarmOnlyReads ==
  \A k \in CallIds :
     Warm(k) =>
        /\ calls[k].scans = 0
        /\ calls[k].puts = 0
        /\ calls[k].updates = 0
        /\ calls[k].enhanced = <<>>
        /\ calls[k].gets = IF Ended(k) THEN 1 ELSE 0
        /\ Ended(k) =>
              /\ calls[k].pc = "returned"
              /\ calls[k].result # <<>>
              /\ calls[k].result[1][TableKey] = calls[k].trip

\* The step of a warm call after its summary get.
WarmStep(k) == calls[k].pc = "fetch" /\ Warm(k) /\ calls'[k].pc # "fetch"

WarmLeavesStores ==
  \A k \in CallIds :
     WarmStep(k) =>
        /\ table' = table
        /\ objects' = objects
        /\ resultFiles' = resultFiles
        /\ Stored(calls[k].trip)
        /\ calls'[k].result = <<JsonParse(objects[ObjectKey(calls[k].trip)])>>

\* C27: a call that read a row with AggregationExecuted set makes the summary
\* get and one object get and no scan, put or update; its step changes no
\* store, and it returns the object at the key the cold path writes.
C27_WarmPathOnlyReads == []WarmOnlyReads /\ [][WarmLeavesStores]_vars

\* A warm call has returned the stored trip with its records.  With the
\* update rejected no row has the flag and no call is warm.
C27_Witness ==
  \E k \in CallIds :
     /\ Warm(k)
     /\ calls[k].pc = "returned"
     /\ calls[k].gets = 1
     /\ calls[k].scans = 0
     /\ calls[k].result = <<JsonParse(objects[ObjectKey(calls[k].trip)])>>
     /\ Len(calls[k].result[1]["Records"]) = 2

(***************************************************************************)
(* C28.  A failed batch write fails the cycle without a rollback, and a    *)
(* cycle that is DONE has stored every row of its summary output.          *)
(***************************************************************************)
FailureReported ==
  \A c \in CycleIds :
     /\ cycles[c].writer = "failed" => cycles[c].stage = "FAILED"
     /\ cycles[c].stage = "DONE" =>
           /\ cycles[c].writer = "ok"
           /\ ParsedRows(c) = SummaryOutput(c)
           /\ \A i \in DOMAIN cycles[c].rows :
                 \E item \in table : item[TableKey] = cycles[c].rows[i][TableKey]

NoRollback ==
  /\ \A item \in table : \E kept \in table' : kept[TableKey] = item[TableKey]
  /\ \A c \in CycleIds :
        (cycles[c].writer # "failed" /\ cycles'[c].writer = "failed") =>
           table' = table /\ cycles'[c].stage = "FAILED"

\* C28: a writer that failed leaves the cycle FAILED and the step that fails
\* it removes nothing from the table; a cycle that is DONE has a stored row for
\* every row of its summary output.
C28_FailedWriteKeepsBatchesDoneStoredAll == []FailureReported /\ [][NoRollback]_vars

(***************************************************************************)
(* C29.  A row of the summary output that does not parse.                  *)
(***************************************************************************)
WellFormedRows(file) == SelectSeq(file, LAMBDA row : DOMAIN row = SummaryColumns)

WriterEntered(c) == cycles[c].writer \notin {"idle", "invoked"}

\* C29: whatever rows of the summary output do not parse, the writer hands
\* every row that does parse to its batch writes, and with no such row it
\* ends without a failure.
C29_MalformedRowNotFatal ==
  \A c \in CycleIds :
     WriterEntered(c) =>
        LET rows == WellFormedRows(SummaryOutput(c))
        IN /\ \A i \in DOMAIN rows :
                 \E j \in DOMAIN cycles[c].rows : ParsedRows(c)[j] = rows[i]
           /\ rows = <<>> => cycles[c].stage = "DONE"

(***************************************************************************)
(* C24.  With TargetTripCount set the simulator stops.                     *)
(***************************************************************************)
TargetTripCountSet == simulator.props.TargetTripCount # 0

AllTripsFinished ==
  /\ TargetTripCountSet
  /\ simulator.finishedTrips = simulator.props.TargetTripCount

\* C24: a simulator with TargetTripCount set generates and finishes that
\* many trips, and once it has, an iteration takes the exit branch.
C24_SimulatorStops ==
  /\ TargetTripCountSet ~> AllTripsFinished
  /\ AllTripsFinished ~> simulator.exited

(***************************************************************************)
(* C25.  The number of tracked trips after an iteration.                   *)
(***************************************************************************)
IterationRan == simulator.simulationIterationCount # -1

\* C25: after an iteration the simulator tracks TargetVehicles trips at
\* most, and exactly TargetVehicles when TargetTripCount is not set.
C25_TrackedTripsWithinTarget ==
  IterationRan =>
     /\ Len(simulator.trips) <= simulator.props.TargetVehicles
     /\ ~TargetTripCountSet => Len(simulator.trips) = simulator.props.TargetVehicles

\* Without a TargetTripCount a finished trip has been replaced: two trips are
\* tracked for two target vehicles after one trip has finished.
C25_Witness ==
  /\ IterationRan
  /\ ~TargetTripCountSet
  /\ simulator.props.TargetVehicles = 2
  /\ simulator.finishedTrips >= 1
  /\ Len(simulator.trips) = 2

(***************************************************************************)
(* C31.  The event count of a summary row.                                 *)
(***************************************************************************)
\* The events of a trip in the files written, whatever their partition.
LoggedEventsOf(tripId) ==
  {e \in UNION {BatchFiles[i].events : i \in 1..delivered} : e.tripid = tripId}

\* C31: over a complete event log whose partitions are all registered, the
\* event count of a summary row is the number of events of the row's trip
\* in every file of the log, whatever partition the file is in.
C31_EventCountOverWholeLog ==
  \A c \in CycleIds :
     cycles[c].q[SUMMARY] = "ok" =>
        \A i \in DOMAIN SummaryOutput(c) :
           SummaryOutput(c)[i].event_count =
              ToString(Cardinality(LoggedEventsOf(SummaryOutput(c)[i].trip_id)))

\* A cycle keyed on minute 04 counts 3 events for t1, of which 2 are in the
\* partition of its key and 1 is in minute 05.
C31_Witness ==
  \E c \in CycleIds :
     /\ cycles[c].q[SUMMARY] = "ok"
     /\ cycles[c].key = BatchFiles[1].key
     /\ \E i \in DOMAIN SummaryOutput(c) :
           /\ SummaryOutput(c)[i].trip_id = "t1"
           /\ SummaryOutput(c)[i].event_count = "3"
     /\ Cardinality({e \in EventsInKeyPartition(c, SUMMARY) : e.tripid = "t1"}) = 2

(***************************************************************************)
(* C34.  The trips created never exceed TargetTripCount.                   *)
(***************************************************************************)
TripsCreated == Len(simulator.trips) + simulator.finishedTrips

\* C34: with TargetTripCount set, the tracked and the finished trips are
\* together TargetTripCount at most, and they are the trips ever created.
C34_CreatedTripsWithinTargetCount ==
  /\ TripsCreated = Cardinality(DOMAIN simulator.emitted)
  /\ TargetTripCountSet => TripsCreated <= simulator.props.TargetTripCount

\* With a target of two trips and two target vehicles, both trips have
\* finished and no third trip was created in their place.
C34_Witness ==
  /\ simulator.props.TargetTripCount = 2
  /\ simulator.props.TargetVehicles = 2
  /\ simulator.finishedTrips = 2
  /\ simulator.trips = <<>>
  /\ simulator.awaiting = {}

(***************************************************************************)
(* C33.  The order of the records of a trip.                               *)
(***************************************************************************)
Positions(e, type) == {i \in DOMAIN e : e[i] = type}

InTripOrder(e) ==
  e # <<>> =>
     /\ Positions(e, ENGINE_START) = {1}
     /\ Cardinality(Positions(e, TRIP_FINISHED)) <= 1
     /\ \A i \in Positions(e, TRIP_FINISHED) : i = Len(e)

\* C33: the records emitted for a trip start with its one engine-start
\* record, and a trip-finished record is the only one and the last.
C33_RecordsInTripOrder ==
  \A id \in DOMAIN simulator.emitted : InTripOrder(simulator.emitted[id])

(***************************************************************************)
(* C32.  Every trip created is started and finished while iterations run.  *)
(***************************************************************************)
Created(id) == id \in DOMAIN simulator.emitted

HasEmitted(id, type) ==
  Created(id) /\ Positions(simulator.emitted[id], type) # {}

\* The trips the next iteration finishes, and the trips created once it ran.
DueTrips ==
  {i \in DOMAIN simulator.trips :
     simulator.trips[i].TripDuration >= simulator.trips[i].TargetTripDuration}

TripsAfterNextIteration ==
  TripsCreated
    + NewTripCount(simulator.props,
                   Len(simulator.trips) - Cardinality(DueTrips),
                   simulator.finishedTrips + Cardinality(DueTrips))

\* No further iteration runs: the process has exited, or the next iteration
\* would create more than MaxTrips trips.
IterationsStopped ==
  \/ simulator.exited
  \/ TripsAfterNextIteration > MaxTrips

\* C32: while iterations keep running, a trip that was created gets its
\* engine-start record, and a trip that has it gets its trip-finished record.
C32_EveryTripStartsAndFinishes ==
  \A id \in 1..MaxTrips :
     /\ Created(id) ~> (HasEmitted(id, ENGINE_START) \/ IterationsStopped)
     /\ HasEmitted(id, ENGINE_START) ~> (HasEmitted(id, TRIP_FINISHED) \/ IterationsStopped)

(***************************************************************************)
(* C35.  Overlapping iterations lose and duplicate nothing.                *)
(***************************************************************************)
TripsAccounted ==
  /\ \A i, j \in DOMAIN simulator.trips :
        simulator.trips[i].Id = simulator.trips[j].Id => i = j
  /\ {simulator.trips[i].Id : i \in DOMAIN simulator.trips} \cap simulator.finished = {}
  /\ Cardinality(simulator.finished) = simulator.finishedTrips
  /\ TripsCreated = Cardinality(DOMAIN simulator.emitted)

\* C35: whatever the overlap of the iterations, every trip created is either
\* tracked once or finished, and no record of an iteration is lost.
C35_OverlapLosesNothing ==
  /\ TripsAccounted
  /\ simulator.lost = {}

(***************************************************************************)
(* C36.  What a cycle's Summary Writer leaves alone.                       *)
(***************************************************************************)
SummaryTripIds(c) ==
  LET file == resultFiles[QueryResultFiles(QueryResults(c))[1].Key]
  IN {file[i].trip_id : i \in DOMAIN file}

\* A step of the writer of cycle c: the handler's parse, or the end of one of
\* its batchWrite requests.
WriterStep(c) ==
  /\ cycles[c].writer \in {"invoked", "writing", "failed"}
  /\ cycles'[c] # cycles[c]

WriterFrame ==
  \A c \in CycleIds :
     WriterStep(c) =>
        /\ objects' = objects
        /\ \A item \in table : item[TableKey] \notin SummaryTripIds(c) => item \in table'
        /\ \A item \in table' : item[TableKey] \notin SummaryTripIds(c) => item \in table

\* C36: a step of a cycle's writer changes no object, and it adds, changes and
\* removes no row of a trip that is not in the cycle's summary output.
C36_WriterChangesOnlyItsTrips == [][WriterFrame]_vars

\* The cycle of the third batch file has written the row of t3, its only
\* trip, and the row of t1, written by the first cycle, and the object of
\* t1, put by the first read, are as they were.
C36_Witness ==
  \E c \in CycleIds :
     /\ cycles[c].writer = "ok"
     /\ SummaryTripIds(c) = {"t3"}
     /\ \E item \in table : item[TableKey] = "t3"
     /\ RowOf("t1") = {cycles[1].rows[1]}
     /\ Stored("t1")
     /\ calls = <<>>

====
